---- MODULE Spec2Model ----
(***************************************************************************)
(* A model of the CRMArena data upload (etl/upload_data_to_salesforce.py): *)
(* the IdMappingDB mapping store, DataUploader.upload_object and           *)
(* DataUploader.upload_all, with the Salesforce org as a record store.     *)
(*                                                                         *)
(* Values are strings.  NULL stands for Python's None / pandas NaN, ""     *)
(* for the empty string: both are falsy in the code's `if not x` tests.    *)
(***************************************************************************)
EXTENDS Integers, Sequences, FiniteSets, TLC

VARIABLES
    cache,      \* IdMappingDB._cache : object_name -> old_id -> new_id (NULL: no entry)
    table,      \* rows of id_mappings as read through IdMappingDB.conn
    committed,  \* rows of id_mappings in the database file (what a new connection reads)
    lastWrite,  \* history: the new_id of the latest completed write per key
    failures,   \* history: how many calls have raised or been rejected so far
    lastOp      \* history: the store call made last

storeVars == <<cache, table, committed, lastWrite, failures, lastOp>>

VARIABLES
    source,       \* the SQLite source: object_name -> sequence of rows (column -> value)
    target,       \* the Salesforce org: set of [object, Id, fields]
    nextId,       \* number of ids the org has handed out
    run,          \* number of upload_all calls started
    dry_run,      \* DataUploader.dry_run of the current run
    queue,        \* objects_to_upload of the current upload_all call
    skip_objects, \* skip_objects of the current upload_all call
    pos,          \* index in queue of the object being processed
    phase,        \* "idle" | "pending" | "prepared" | "submitted"
    records,      \* upload_object: the prepared records
    old_ids,      \* upload_object: the source ids kept by the transform loop
    rec_src,      \* history: the source id each prepared record was built from
    results,      \* upload_object: the outcomes returned by the org
    ridx,         \* upload_object: index of the outcome the result loop is at
    uploaded,     \* upload_object: the result loop's counter of successes
    errors,       \* upload_object: the result loop's error counter
    quote_errors_shown, \* upload_object: the result loop's counter of Quote errors printed
    stats,        \* upload_all: stats["objects"], per object the returned summary
    created,      \* history: [object, src, id, run] of every record the org created
    submitted,    \* history: [object, src, record, run, mode] of every record sent
    mapLog,       \* history: every mapping written by the pipeline
    asked,        \* history: [by, of, col, done] of every Mapping Store lookup of this run
    passDone,     \* history: the objects whose pass has completed in this run
    runStart,     \* history: the cache at the start of the current run
    judged,       \* history: [object, payload, counted] of the failed outcomes classified
    cleared,      \* history: the object types cleared since the last run finished
    everRan,      \* history: the object types a finished run has made a pass for
    conversions   \* history: one entry per call of convert_leads_post_upload

pipeVars == <<source, target, nextId, run, dry_run, queue, skip_objects, pos, phase,
              records, old_ids, rec_src, results, ridx, uploaded, errors,
              quote_errors_shown, stats, created, submitted, mapLog, asked,
              passDone, runStart, judged, cleared, everRan, conversions>>

vars == <<storeVars, pipeVars>>

NULL == "None"

Falsy(v) == v \in {NULL, ""}

(***************************************************************************)
(* Bounds of the mapping-store specification.                              *)
(***************************************************************************)
MaxBatch == 2
MaxFailures == 1

StoreObjects == {"Account", "Contact"}
StoreOldIds  == {"", "a1"}
StoreNewIds  == {"", "T1", "T2"}

\* Where a durable write raises: nowhere, in cursor.execute (nothing is
\* written), or in conn.commit (the statement has run on the connection,
\* the cache update after it is not reached).
FailModes == {"ok", "execute", "commit"}

Row(o, old, new) == [object_name |-> o, old_id |-> old, new_id |-> new]

EmptyCache(objs, olds) == [o \in objs |-> [k \in olds |-> NULL]]

(***************************************************************************)
(* IdMappingDB                                                             *)
(***************************************************************************)

\* INSERT OR REPLACE INTO id_mappings under PRIMARY KEY (object_name, old_id)
InsertOnly(tbl, o, old, new) == tbl \cup {Row(o, old, new)}

InsertOrReplace(tbl, o, old, new) ==
    {r \in tbl : ~(r.object_name = o /\ r.old_id = old)} \cup {Row(o, old, new)}

get_mapping(c, o, old) ==
    IF Falsy(old) THEN NULL
    ELSE IF o \in DOMAIN c /\ old \in DOMAIN c[o] THEN c[o][old] ELSE NULL

get_count(tbl, o) == Cardinality({r \in tbl : r.object_name = o})

get_all_for_object(c, o) == {k \in DOMAIN c[o] : c[o][k] # NULL}

\* the cache loop of save_mappings_batch: entries in list order, later wins
RECURSIVE CacheFirstWins(_, _, _)
CacheFirstWins(c, o, mappings) ==
    IF mappings = <<>> THEN c
    ELSE LET old == mappings[1][1]
             new == mappings[1][2]
             c1  == IF ~Falsy(old) /\ ~Falsy(new) /\ c[o][old] = NULL
                    THEN [c EXCEPT ![o][old] = new] ELSE c
         IN  CacheFirstWins(c1, o, Tail(mappings))

RECURSIVE CacheAfterBatch(_, _, _)
CacheAfterBatch(c, o, mappings) ==
    IF mappings = <<>> THEN c
    ELSE LET old == mappings[1][1]
             new == mappings[1][2]
             c1  == IF ~Falsy(old) /\ ~Falsy(new)
                    THEN [c EXCEPT ![o][old] = new] ELSE c
         IN  CacheAfterBatch(c1, o, Tail(mappings))

\* cursor.executemany over data = the pairs with both ids truthy, in order
RECURSIVE TableAfterBatch(_, _, _)
TableAfterBatch(tbl, o, mappings) ==
    IF mappings = <<>> THEN tbl
    ELSE LET old == mappings[1][1]
             new == mappings[1][2]
             t1  == IF ~Falsy(old) /\ ~Falsy(new)
                    THEN InsertOrReplace(tbl, o, old, new) ELSE tbl
         IN  TableAfterBatch(t1, o, Tail(mappings))

\* Each operation maps a store [cache, table] to the store after the call,
\* whether the call raised, and whether its conn.commit() completed.
Store(c, tbl, raised, commit) ==
    [cache |-> c, table |-> tbl, raised |-> raised, commit |-> commit]

save_mapping(db, o, old, new, fail) ==
    IF Falsy(old) \/ Falsy(new) THEN Store(db.cache, db.table, FALSE, FALSE)
    ELSE IF fail = "execute" THEN Store(db.cache, db.table, TRUE, FALSE)
    ELSE IF fail = "commit"
         THEN Store(db.cache, InsertOrReplace(db.table, o, old, new), TRUE, FALSE)
    ELSE Store([db.cache EXCEPT ![o][old] = new],
               InsertOrReplace(db.table, o, old, new), FALSE, TRUE)

save_mappings_batch(db, o, mappings, fail) ==
    IF mappings = <<>> THEN Store(db.cache, db.table, FALSE, FALSE)
    ELSE IF fail = "execute" THEN Store(db.cache, db.table, TRUE, FALSE)
    ELSE IF fail = "commit"
         THEN Store(db.cache, TableAfterBatch(db.table, o, mappings), TRUE, FALSE)
    ELSE Store(CacheAfterBatch(db.cache, o, mappings),
               TableAfterBatch(db.table, o, mappings), FALSE, TRUE)

\* a clear that forgets the object name
clear_every_object(db, o, fail) ==
    IF fail = "execute" THEN Store(db.cache, db.table, TRUE, FALSE)
    ELSE IF fail = "commit" THEN Store(db.cache, {}, TRUE, FALSE)
    ELSE Store([x \in DOMAIN db.cache |-> [k \in DOMAIN db.cache[x] |-> NULL]],
               {}, FALSE, TRUE)

clear_object(db, o, fail) ==
    IF fail = "execute" THEN Store(db.cache, db.table, TRUE, FALSE)
    ELSE IF fail = "commit"
         THEN Store(db.cache, {r \in db.table : r.object_name # o}, TRUE, FALSE)
    ELSE Store([db.cache EXCEPT ![o] = [k \in DOMAIN db.cache[o] |-> NULL]],
               {r \in db.table : r.object_name # o}, FALSE, TRUE)

clear_all(db, fail) ==
    IF fail = "execute" THEN Store(db.cache, db.table, TRUE, FALSE)
    ELSE IF fail = "commit" THEN Store(db.cache, {}, TRUE, FALSE)
    ELSE Store([o \in DOMAIN db.cache |-> [k \in DOMAIN db.cache[o] |-> NULL]],
               {}, FALSE, TRUE)

\* _load_cache: the cache a new IdMappingDB builds from the table
LoadCache(tbl, objs, olds) ==
    [o \in objs |-> [k \in olds |->
        IF \E r \in tbl : r.object_name = o /\ r.old_id = k
        THEN (CHOOSE r \in tbl : r.object_name = o /\ r.old_id = k).new_id
        ELSE NULL]]

(***************************************************************************)
(* History of completed writes, kept beside the store: the value of the    *)
(* pair with the greatest index among the pairs of a batch with that key.  *)
(***************************************************************************)
LatestIn(mappings, k) ==
    LET idx == {i \in 1..Len(mappings) :
                   mappings[i][1] = k /\ ~Falsy(mappings[i][1]) /\ ~Falsy(mappings[i][2])}
    IN  IF idx = {} THEN NULL
        ELSE mappings[CHOOSE i \in idx : \A j \in idx : j <= i][2]

HistoryAfterBatch(h, o, mappings) ==
    [h EXCEPT ![o] = [k \in DOMAIN h[o] |->
        IF LatestIn(mappings, k) # NULL THEN LatestIn(mappings, k) ELSE h[o][k]]]

Batches(olds, news) == UNION {[1..n -> olds \X news] : n \in 0..MaxBatch}

(***************************************************************************)
(* The mapping store driven by arbitrary calls.                            *)
(***************************************************************************)
StoreNow == Store(cache, table, FALSE, FALSE)

\* the database file after a call: a completed commit writes the whole
\* transaction of the connection
Durable(db) == IF db.commit THEN db.table ELSE committed

\* the failure modes still within the bound on raised calls
MayFail == IF failures < MaxFailures THEN FailModes ELSE {"ok"}

Raised(db) == failures' = failures + (IF db.raised THEN 1 ELSE 0)

\* a batch that names one old_id in two of its valid pairs
Repeats(mappings) ==
    \E i, j \in 1..Len(mappings) :
        /\ i < j
        /\ mappings[i][1] = mappings[j][1]
        /\ ~Falsy(mappings[i][1]) /\ ~Falsy(mappings[i][2]) /\ ~Falsy(mappings[j][2])

Op(name, o, repeats, db) ==
    [op |-> name, object_name |-> o, repeats |-> repeats, raised |-> db.raised]

\* no DataUploader exists: the store is used on its own
NoPipeline ==
    /\ source = <<>> /\ target = {} /\ nextId = 0 /\ run = 0 /\ dry_run = FALSE
    /\ queue = <<>> /\ skip_objects = {} /\ pos = 1 /\ phase = "idle"
    /\ records = <<>> /\ old_ids = <<>> /\ rec_src = <<>> /\ results = <<>>
    /\ ridx = 1 /\ uploaded = 0 /\ errors = 0 /\ quote_errors_shown = 0
    /\ stats = <<>> /\ created = {} /\ submitted = {} /\ mapLog = {} /\ asked = {}
    /\ passDone = {} /\ runStart = <<>> /\ judged = {} /\ cleared = {} /\ everRan = {}
    /\ conversions = <<>>

StoreInit ==
    /\ cache = EmptyCache(StoreObjects, StoreOldIds)
    /\ table = {}
    /\ committed = {}
    /\ NoPipeline
    /\ lastWrite = EmptyCache(StoreObjects, StoreOldIds)
    /\ failures = 0
    /\ lastOp = [op |-> "init", object_name |-> NULL, repeats |-> FALSE, raised |-> FALSE]

SaveMapping ==
    \E o \in StoreObjects, old \in StoreOldIds, new \in StoreNewIds, fail \in MayFail :
        LET db == save_mapping(StoreNow, o, old, new, fail) IN
        /\ cache' = db.cache
        /\ table' = db.table
        /\ committed' = Durable(db)
        /\ Raised(db)
        /\ UNCHANGED pipeVars
        /\ lastOp' = Op("save_mapping", o, FALSE, db)
        /\ lastWrite' = IF db.raised \/ Falsy(old) \/ Falsy(new) THEN lastWrite
                        ELSE [lastWrite EXCEPT ![o][old] = new]

SaveMappingsBatch ==
    \E o \in StoreObjects, mappings \in Batches(StoreOldIds, StoreNewIds), fail \in MayFail :
        LET db == save_mappings_batch(StoreNow, o, mappings, fail) IN
        /\ cache' = db.cache
        /\ table' = db.table
        /\ committed' = Durable(db)
        /\ Raised(db)
        /\ UNCHANGED pipeVars
        /\ lastOp' = Op("save_mappings_batch", o, Repeats(mappings), db)
        /\ lastWrite' = IF db.raised THEN lastWrite
                        ELSE HistoryAfterBatch(lastWrite, o, mappings)

ClearObject ==
    \E o \in StoreObjects, fail \in MayFail :
        LET db == clear_object(StoreNow, o, fail) IN
        /\ cache' = db.cache
        /\ table' = db.table
        /\ committed' = Durable(db)
        /\ Raised(db)
        /\ UNCHANGED pipeVars
        /\ lastOp' = Op("clear_object", o, FALSE, db)
        /\ lastWrite' = IF db.raised THEN lastWrite
                        ELSE [lastWrite EXCEPT ![o] = [k \in DOMAIN lastWrite[o] |-> NULL]]

ClearAll ==
    \E fail \in MayFail :
        LET db == clear_all(StoreNow, fail) IN
        /\ cache' = db.cache
        /\ table' = db.table
        /\ committed' = Durable(db)
        /\ Raised(db)
        /\ UNCHANGED pipeVars
        /\ lastOp' = Op("clear_all", NULL, FALSE, db)
        /\ lastWrite' = IF db.raised THEN lastWrite
                        ELSE EmptyCache(StoreObjects, StoreOldIds)

StoreNext == SaveMapping \/ SaveMappingsBatch \/ ClearObject \/ ClearAll

SpecStore == StoreInit /\ [][StoreNext]_vars

(***************************************************************************)
(* The upload pipeline: DataUploader                                       *)
(***************************************************************************)
\* the same list with Contact moved ahead of Account
ContactsBeforeAccounts == <<
    "User", "Contact", "Account", "Lead", "Territory2", "UserTerritory2Association",
    "ProductCategory", "Product2", "Pricebook2", "PricebookEntry",
    "Opportunity", "OpportunityLineItem", "Contract", "Quote", "QuoteLineItem",
    "Issue__c", "Order", "OrderItem", "Case", "Task", "Event",
    "ProductCategoryProduct", "EmailMessage", "LiveChatTranscript",
    "VoiceCallTranscript__c", "CaseHistory__c", "Knowledge__kav" >>

\* Object upload order (respecting dependencies)
UPLOAD_ORDER == <<
    "User", "Account", "Lead", "Territory2", "UserTerritory2Association",
    "ProductCategory", "Product2", "Pricebook2", "PricebookEntry", "Contact",
    "Opportunity", "OpportunityLineItem", "Contract", "Quote", "QuoteLineItem",
    "Issue__c", "Order", "OrderItem", "Case", "Task", "Event",
    "ProductCategoryProduct", "EmailMessage", "LiveChatTranscript",
    "VoiceCallTranscript__c", "CaseHistory__c", "Knowledge__kav" >>

Range(seq) == {seq[i] : i \in 1..Len(seq)}

ObjectNames == Range(UPLOAD_ORDER) \cup {"LiveChatVisitor"}

\* ---- records as Python dicts -------------------------------------------
EmptyRecord == [k \in {} |-> NULL]

Put(rec, k, v) == [x \in DOMAIN rec \cup {k} |-> IF x = k THEN v ELSE rec[x]]

Drop(rec, ks) == [x \in DOMAIN rec \ ks |-> rec[x]]

Get(rec, k) == IF k \in DOMAIN rec THEN rec[k] ELSE NULL

\* dict.update: the entries of rec over those of fields
Merge(fields, rec) ==
    [k \in DOMAIN fields \cup DOMAIN rec |-> IF k \in DOMAIN rec THEN rec[k] ELSE fields[k]]

\* ---- strings --------------------------------------------------------------
\* str.lower() on the names the model uses
Lower(s) == CASE s = "FAQ" -> "faq"
              [] s = "FAQ-1" -> "faq-1"
              [] s = "FAQ-2" -> "faq-2"
              [] s = "FAQ-1-1" -> "faq-1-1"
              [] s = "FAQ-1-2" -> "faq-1-2"
              [] s = "U1@X.COM" -> "u1@x.com"
              [] OTHER -> s

\* col.endswith("Id") or col.endswith("Id__c"), over the columns of the model
IdColumns == {"AccountId", "ContactId", "OwnerId", "CaseId", "CaseId__c", "LeadId",
              "OpportunityId", "QuoteId", "ContractId", "Product2Id", "Pricebook2Id",
              "OrderId", "Territory2Id", "ProductCategoryId", "IssueId__c",
              "OrderItemId__c", "PricebookEntryId", "OpportunityLineItemId",
              "LiveChatVisitorId", "ParentId", "ProductId", "WhatId", "WhoId",
              "UserId", "ProfileId", "RecordTypeId", "CatalogId",
              "ConvertedAccountId", "ConvertedContactId", "ConvertedOpportunityId",
              "ActivatedById", "RelatedToId", "LeadId__c", "AccountId__c",
              "ContactId__c", "OpportunityId__c", "Territory2ModelId", "Territory2TypeId"}

EndsWithId(col) == col \in IdColumns

\* field_name.startswith("Is")
StartsWithIs(col) == col \in {"IsActive", "IsConverted", "IsStandard", "IsDeleted"}

\* the e-mail pattern of the User block, over the addresses of the model
ValidEmail(e) == e \in {"u1@x.com", "u2@x.com", "u3@x.com", "U1@X.COM"}

_get_referenced_object(field_name, object_name) ==
    CASE field_name = "AccountId" -> "Account"
      [] field_name = "ContactId" -> "Contact"
      [] field_name = "OwnerId" -> "User"
      [] field_name \in {"CaseId", "CaseId__c"} -> "Case"
      [] field_name = "LeadId" -> "Lead"
      [] field_name = "OpportunityId" -> "Opportunity"
      [] field_name = "QuoteId" -> "Quote"
      [] field_name = "ContractId" -> "Contract"
      [] field_name = "Product2Id" -> "Product2"
      [] field_name = "Pricebook2Id" -> "Pricebook2"
      [] field_name = "OrderId" -> "Order"
      [] field_name = "Territory2Id" -> "Territory2"
      [] field_name = "ProductCategoryId" -> "ProductCategory"
      [] field_name = "IssueId__c" -> "Issue__c"
      [] field_name = "OrderItemId__c" -> "OrderItem"
      [] field_name = "PricebookEntryId" -> "PricebookEntry"
      [] field_name = "OpportunityLineItemId" -> "OpportunityLineItem"
      [] field_name = "LiveChatVisitorId" -> "LiveChatVisitor"
      [] field_name = "ParentId" /\ object_name = "EmailMessage" -> "Case"
      [] field_name = "ProductId" -> "Product2"
      [] field_name \in {"WhatId", "WhoId"} -> "Polymorphic"
      [] OTHER -> NULL

\* id_str.startswith(...) over the source ids of the model: the first three
\* characters of an id name the object that owns it
Prefix3(v) ==
    CASE v \in {"006o1", "006o2"} -> "006"
      [] v \in {"001a1", "001a2", "001aX"} -> "001"
      [] v \in {"500k1", "500k2"} -> "500"
      [] v \in {"00Ql1", "00Ql2"} -> "00Q"
      [] v \in {"003c1", "003c2", "003c3", "003c9"} -> "003"
      [] v \in {"800n1"} -> "800"
      [] v \in {"801r1", "801r2", "801rX"} -> "801"
      [] OTHER -> "???"

PolymorphicObject(value) ==
    CASE Prefix3(value) = "006" -> "Opportunity"
      [] Prefix3(value) = "001" -> "Account"
      [] Prefix3(value) = "500" -> "Case"
      [] Prefix3(value) = "00Q" -> "Lead"
      [] Prefix3(value) = "003" -> "Contact"
      [] Prefix3(value) = "800" -> "Contract"
      [] OTHER -> NULL

map_id(c, old_id, object_name) ==
    IF Falsy(old_id) THEN NULL ELSE get_mapping(c, object_name, old_id)

clean_field_value(value, field_name) ==
    IF value = NULL THEN NULL
    ELSE IF StartsWithIs(field_name)
         THEN (IF Lower(value) \in {"true", "1", "yes"} THEN "True" ELSE "False")
    ELSE IF value \in {"", " "} THEN NULL
    ELSE value

\* ---- upload_object: the transform loop -----------------------------------
SKIP == "<not set>"

\* the id of the authenticated user, as the org answers
\* SELECT Id FROM User WHERE IsActive = true LIMIT 1
OrgUserId == "005ADMIN"

\* the same columns but for Id, which is then copied like any other
KeepsSourceId(object_name, col) ==
    \/ object_name = "Account" /\ col \in {"RecordTypeId", "FirstName", "LastName",
                                            "PersonEmail", "ShippingState", "ShippingCity"}
    \/ object_name = "Case" /\ col \in {"IssueId__c", "ClosedDate"}
    \/ object_name = "EmailMessage" /\ col = "ToIds"
    \/ col = "External_ID__c"
    \/ object_name = "Knowledge__kav" /\ col = "FAQ_Answer__c"
    \/ object_name = "CaseHistory__c" /\ col \in {"Field__c", "NewValue__c",
                                                   "OldValue__c", "CaseId__c"}
    \/ col \in {"CreatedDate", "LastModifiedDate", "SystemModstamp"}
    \/ object_name = "Pricebook2" /\ col \in {"ValidFrom", "ValidTo"}

\* the columns the loop passes over with `continue` before any mapping
SkipColumn(object_name, col) ==
    \/ col = "Id"
    \/ object_name = "Account" /\ col \in {"RecordTypeId", "FirstName", "LastName",
                                            "PersonEmail", "ShippingState", "ShippingCity"}
    \/ object_name = "Case" /\ col = "IssueId__c"
    \/ object_name = "EmailMessage" /\ col = "ToIds"
    \/ col = "External_ID__c"
    \/ object_name = "Knowledge__kav" /\ col = "FAQ_Answer__c"
    \/ object_name = "CaseHistory__c" /\ col \in {"Field__c", "NewValue__c",
                                                   "OldValue__c", "CaseId__c"}
    \/ col \in {"CreatedDate", "LastModifiedDate", "SystemModstamp"}
    \/ object_name = "Case" /\ col = "ClosedDate"
    \/ object_name = "Pricebook2" /\ col \in {"ValidFrom", "ValidTo"}

\* the object a reference column resolves to for this value (NULL: none)
RefObject(object_name, col, value) ==
    LET ref_obj == _get_referenced_object(col, object_name)
    IN  IF ref_obj = "Polymorphic" /\ ~Falsy(value)
        THEN PolymorphicObject(value) ELSE ref_obj

\* the Mapping Store is consulted for this column of this row
LooksUp(object_name, col, value) ==
    /\ ~SkipColumn(object_name, col)
    /\ EndsWithId(col)
    /\ RefObject(object_name, col, value) # NULL
    /\ ~Falsy(value)

\* the sentinel branch: Task/Event OwnerId of a User that is not mapped
UsesCurrentUser(object_name, col, value, c) ==
    /\ LooksUp(object_name, col, value)
    /\ RefObject(object_name, col, value) = "User"
    /\ Falsy(map_id(c, value, "User"))
    /\ object_name \in {"Task", "Event"} /\ col = "OwnerId"

\* what the loop body leaves in record[col]: a value, NULL (None), or SKIP.
\* qf: the queries that raise in this pass; when the query for the current
\* user raises the column is passed over and the id is not kept, so that the
\* next row asks again
FieldOut(object_name, col, value, c, qf) ==
    IF SkipColumn(object_name, col) THEN SKIP
    ELSE IF EndsWithId(col)
    THEN LET ref_obj == RefObject(object_name, col, value) IN
         IF ref_obj # NULL
         THEN LET mapped_id == map_id(c, value, ref_obj) IN
              IF ~Falsy(mapped_id) THEN mapped_id
              ELSE IF UsesCurrentUser(object_name, col, value, c)
                      /\ "current user query" \notin qf THEN OrgUserId
              ELSE SKIP
         ELSE clean_field_value(value, col)
    ELSE clean_field_value(value, col)

NoRequiredCheck(object_name, record) == FALSE

\* the required-field checks after the loop
MissingRequired(object_name, record) ==
    \/ object_name = "Order" /\ "AccountId" \notin DOMAIN record
    \/ object_name = "PricebookEntry"
          /\ ("Pricebook2Id" \notin DOMAIN record \/ "Product2Id" \notin DOMAIN record)
    \/ object_name = "ProductCategoryProduct"
          /\ ("ProductCategoryId" \notin DOMAIN record \/ "ProductId" \notin DOMAIN record)

AccountName(row) ==
    IF ~Falsy(Get(row, "Phone")) THEN "Account-" \o Get(row, "Phone")
    ELSE IF ~Falsy(Get(row, "Id")) THEN "Account-" \o Get(row, "Id")
    ELSE "Account"

\* record['OriginalId__c'] = str(old_id), unless Knowledge__kav
Base(object_name, row) ==
    IF ~Falsy(Get(row, "Id")) /\ object_name # "Knowledge__kav"
    THEN Put(EmptyRecord, "OriginalId__c", Get(row, "Id")) ELSE EmptyRecord

\* the columns the loop body assigns
RowFields(object_name, row, c, qf) ==
    [k \in {col \in DOMAIN row : FieldOut(object_name, col, row[col], c, qf) # SKIP} |->
        FieldOut(object_name, k, row[k], c, qf)]

\* Account requires Name
Named(object_name, row, record) ==
    IF object_name = "Account" /\ "Name" \notin DOMAIN record
    THEN Put(record, "Name", AccountName(row)) ELSE record

\* record = {k: v for k, v in record.items() if v is not None}
NoNone(record) == Drop(record, {k \in DOMAIN record : record[k] = NULL})

\* PricebookEntry records that pass the check are made active
Activated(object_name, record) ==
    IF object_name = "PricebookEntry" /\ ~MissingRequired(object_name, record)
       /\ "IsActive" \notin DOMAIN record
    THEN Put(record, "IsActive", "True") ELSE record

\* one pass of the loop body over a source row: the record built from it
TransformRow(object_name, row, c, qf) ==
    Activated(object_name,
        NoNone(Named(object_name, row,
            Merge(Base(object_name, row), RowFields(object_name, row, c, qf)))))

\* records.append(record); old_ids.append(old_id), unless the row is skipped
Keep(object_name, row, record, rest) ==
    IF MissingRequired(object_name, record) THEN rest
    ELSE [records |-> <<record>> \o rest.records,
          old_ids |-> <<Get(row, "Id")>> \o rest.old_ids]

\* the whole loop: records and old_ids of the rows that pass the checks
RECURSIVE TransformRows(_, _, _, _)
TransformRows(object_name, rows, c, qf) ==
    IF rows = <<>> THEN [records |-> <<>>, old_ids |-> <<>>]
    ELSE Keep(object_name, rows[1], TransformRow(object_name, rows[1], c, qf),
              TransformRows(object_name, Tail(rows), c, qf))

\* the lookups the loop makes, each with whether the referenced object's pass
\* has completed in this run
Lookups(object_name, rows, done) ==
    {[by |-> object_name, of |-> RefObject(object_name, col, rows[i][col]),
      col |-> col, done |-> RefObject(object_name, col, rows[i][col]) \in done] :
        <<i, col>> \in {ic \in (1..Len(rows)) \X IdColumns :
                          /\ ic[2] \in DOMAIN rows[ic[1]]
                          /\ LooksUp(object_name, ic[2], rows[ic[1]][ic[2]])}}

\* ---- upload_object: the User block ---------------------------------------
\* record["Username"].split("@")[0][:8]
AliasOf(username) ==
    CASE username \in {"u1@x.com", "U1@X.COM"} -> "u1"
      [] username = "u2@x.com" -> "u2"
      [] username = "u3@x.com" -> "u3"
      [] OTHER -> username

Default(rec, k, v) == IF k \in DOMAIN rec THEN rec ELSE Put(rec, k, v)

\* a User record with Username taken from Email when it has none
WithUsername(record) ==
    IF Falsy(Get(record, "Username")) /\ ~Falsy(Get(record, "Email"))
    THEN Put(record, "Username", Get(record, "Email")) ELSE record

\* the record is dropped by one of the block's `continue`s
UserDropped(record, existing_usernames, default_profile_id) ==
    \/ ~Falsy(Get(record, "Email")) /\ ~ValidEmail(Get(record, "Email"))
    \/ Falsy(Get(WithUsername(record), "Username"))
    \/ Lower(Get(WithUsername(record), "Username")) \in existing_usernames
    \/ Falsy(Get(record, "ProfileId")) /\ Falsy(default_profile_id)

\* the record with the required fields the block adds
UserCompleted(record, default_profile_id) ==
    LET r1 == WithUsername(record)
        r2 == IF Falsy(Get(r1, "LastName"))
              THEN Put(r1, "LastName", IF ~Falsy(Get(r1, "FirstName"))
                                       THEN Get(r1, "FirstName") ELSE "User")
              ELSE r1
        r3 == IF Falsy(Get(r2, "Alias"))
              THEN Put(r2, "Alias", AliasOf(Get(r2, "Username"))) ELSE r2
        r4 == IF Falsy(Get(r3, "ProfileId"))
              THEN Put(r3, "ProfileId", default_profile_id) ELSE r3
    IN  Default(Default(Default(Default(r4,
            "TimeZoneSidKey", "America/New_York"),
            "LocaleSidKey", "en_US"),
            "EmailEncodingKey", "UTF-8"),
            "LanguageLocaleKey", "en_US")

\* valid_records of the User block; srcs follows the records that are kept
RECURSIVE UserBlock(_, _, _, _)
UserBlock(recs, srcs, existing_usernames, default_profile_id) ==
    IF recs = <<>> THEN [records |-> <<>>, srcs |-> <<>>]
    ELSE IF UserDropped(recs[1], existing_usernames, default_profile_id)
    THEN UserBlock(Tail(recs), Tail(srcs), existing_usernames, default_profile_id)
    ELSE LET rest == UserBlock(Tail(recs), Tail(srcs),
                         existing_usernames
                             \cup {Lower(Get(WithUsername(recs[1]), "Username"))},
                         default_profile_id)
         IN  [records |-> <<UserCompleted(recs[1], default_profile_id)>> \o rest.records,
              srcs    |-> <<srcs[1]>> \o rest.srcs]

\* ---- upload_object: the Knowledge__kav block ------------------------------
\* f"-{int(time.time()) % 10000}" for the clock values of the model
Suffixes == {"-1", "-2"}

KnowledgeRecord(record, existing_urlnames, suffix) ==
    LET r1 == IF Falsy(Get(record, "Language")) THEN Put(record, "Language", "en_US")
              ELSE record
        r2 == IF Falsy(Get(r1, "ValidationStatus"))
              THEN Put(r1, "ValidationStatus", "Draft") ELSE r1
    IN  IF ~Falsy(Get(r2, "UrlName")) /\ Lower(r2["UrlName"]) \in existing_urlnames
        THEN Put(r2, "UrlName", r2["UrlName"] \o suffix) ELSE r2

\* clock[i] is the suffix the clock gives while record i is handled
RECURSIVE KnowledgeBlock(_, _, _)
KnowledgeBlock(recs, existing_urlnames, clock) ==
    IF recs = <<>> THEN <<>>
    ELSE LET record == KnowledgeRecord(recs[1], existing_urlnames, clock[1])
             seen   == IF ~Falsy(Get(record, "UrlName"))
                       THEN existing_urlnames \cup {Lower(record["UrlName"])}
                       ELSE existing_urlnames
         IN  <<record>> \o KnowledgeBlock(Tail(recs), seen, Tail(clock))

\* float(TotalPrice) / float(Quantity) over the amounts of the model; NULL
\* when the quantity is not positive or a value is not a number
Quotient(total_price, quantity) ==
    CASE total_price = "20" /\ quantity = "2" -> "10.0"
      [] total_price = "20" /\ quantity = "1" -> "20.0"
      [] OTHER -> NULL

\* record['UnitPrice'] = TotalPrice / Quantity when both are there
WithUnitPrice(record) ==
    IF /\ "TotalPrice" \in DOMAIN record /\ "Quantity" \in DOMAIN record
       /\ Quotient(record["TotalPrice"], record["Quantity"]) # NULL
    THEN Put(record, "UnitPrice", Quotient(record["TotalPrice"], record["Quantity"]))
    ELSE record

\* records that keep every field the transform loop gave them
NoCleanUp(object_name, record) == record

\* ---- upload_object: the per-object clean-up of the prepared records -------
CleanUp(object_name, record) ==
    CASE object_name = "Lead" ->
            Drop(record, {"ConvertedContactId", "ConvertedAccountId", "ConvertedDate",
                          "ConvertedOpportunityId", "IsConverted"})
      [] object_name = "Contract" ->
            IF "Status" \in DOMAIN record THEN Put(record, "Status", "Draft") ELSE record
      [] object_name = "Order" ->
            Drop(IF "Status" \in DOMAIN record THEN Put(record, "Status", "Draft")
                 ELSE record, {"ActivatedDate", "ActivatedById"})
      [] object_name = "Quote" ->
            Drop(record, {"AccountId", "CreatedDate", "LastModifiedDate", "SystemModstamp"})
      [] object_name = "EmailMessage" -> Drop(record, {"RelatedToId"})
      [] object_name = "Opportunity" -> Drop(record, {"ContractID__c"})
      [] object_name = "OpportunityLineItem" ->
            Drop(WithUnitPrice(record), {"TotalPrice"})
      [] object_name = "QuoteLineItem" ->
            Drop(IF ~Falsy(Get(record, "UnitPrice")) THEN record
                 ELSE WithUnitPrice(record), {"TotalPrice"})
      [] object_name = "VoiceCallTranscript__c" ->
            Drop(record, {"LeadId__c", "AccountId__c", "ContactId__c",
                          "OpportunityId__c", "CaseId__c"})
      [] OTHER -> record

(***************************************************************************)
(* The Salesforce org, as the upload uses it: a record store that hands    *)
(* out ids, matches an upsert on OriginalId__c and enforces its unique     *)
(* keys on a create.                                                       *)
(***************************************************************************)
NewId(n) == "T" \o ToString(n + 1)

OrgRecord(t, id, fields) == [object |-> t, Id |-> id, fields |-> fields]

\* the org before any upload: its standard price book, its administrator
\* and the profile the User block looks for
StandardPricebookId == "01sSTD"
DefaultProfileId == "00ePROFILE"

InitialOrg ==
    { OrgRecord("Pricebook2", StandardPricebookId, [IsStandard |-> "True"]),
      OrgRecord("User", OrgUserId, [Username |-> "admin@x.com", IsActive |-> "True"]) }

\* the error payload of a failed outcome: result['errors'][0], or an empty list
Payload(code, msg) == [statusCode |-> code, message |-> msg, present |-> TRUE]
EmptyErrors == [statusCode |-> NULL, message |-> NULL, present |-> FALSE]
NoFault == Payload("<ok>", NULL)

Ok(id) == [success |-> TRUE, id |-> id, error |-> NoFault]
Failed(payload) == [success |-> FALSE, id |-> NULL, error |-> payload]

NoMatch(tgt, t, rec) == {}

\* the records an upsert on OriginalId__c matches
Matches(tgt, t, rec) ==
    {r \in tgt : /\ r.object = t
                 /\ "OriginalId__c" \in DOMAIN rec
                 /\ Get(r.fields, "OriginalId__c") = rec["OriginalId__c"]}

\* the statusCode the org rejects a create with under its unique keys (NULL: none)
OrgRejects(tgt, t, rec) ==
    CASE t = "User" /\ (\E r \in tgt : /\ r.object = "User"
                                       /\ Lower(Get(r.fields, "Username"))
                                            = Lower(Get(rec, "Username")))
            -> "DUPLICATE_USERNAME"
      [] t = "Knowledge__kav" /\ ~Falsy(Get(rec, "UrlName"))
           /\ (\E r \in tgt : /\ r.object = "Knowledge__kav"
                              /\ Lower(Get(r.fields, "UrlName")) = Lower(rec["UrlName"]))
            -> "DUPLICATE_VALUE"
      [] t = "PricebookEntry"
           /\ (\E r \in tgt : /\ r.object = "PricebookEntry"
                              /\ Get(r.fields, "Product2Id") = Get(rec, "Product2Id")
                              /\ Get(r.fields, "Pricebook2Id") = Get(rec, "Pricebook2Id"))
            -> "DUPLICATE_VALUE"
      [] OTHER -> NULL

Org(tgt, n) == [target |-> tgt, nextId |-> n, results |-> <<>>, created |-> {}]

\* sf.bulk.<object>.upsert / insert over the batch, record by record;
\* faults[i] is the failure the org answers record i with (NoFault: none)
RECURSIVE BulkSubmit(_, _, _, _, _, _)
BulkSubmit(org, t, use_upsert, recs, srcs, faults) ==
    IF recs = <<>> THEN org
    ELSE LET rec == recs[1]
             hit == IF use_upsert THEN Matches(org.target, t, rec) ELSE {}
             id  == NewId(org.nextId)
             org1 ==
               IF faults[1] # NoFault
               THEN [org EXCEPT !.results = Append(@, Failed(faults[1]))]
               ELSE IF hit # {}
               THEN LET r == CHOOSE r \in hit : TRUE IN
                    [org EXCEPT !.target = (@ \ {r})
                                    \cup {OrgRecord(t, r.Id, Merge(r.fields, rec))},
                                !.results = Append(@, Ok(r.Id))]
               ELSE IF OrgRejects(org.target, t, rec) # NULL
               THEN [org EXCEPT !.results =
                        Append(@, Failed(Payload(OrgRejects(org.target, t, rec), "duplicate")))]
               ELSE [org EXCEPT !.target = @ \cup {OrgRecord(t, id, rec)},
                                !.nextId = @ + 1,
                                !.results = Append(@, Ok(id)),
                                !.created = @ \cup {[src |-> srcs[1], id |-> id]}]
         IN  BulkSubmit(org1, t, use_upsert, Tail(recs), Tail(srcs), Tail(faults))

(***************************************************************************)
(* upload_object: the result loop                                          *)
(***************************************************************************)
\* `quote_errors_shown < 5`
QuoteErrorsLimit == 5

\* 'text' in error_msg, over the messages of the model: a message is the
\* field or phrase it names
Mentions(error_msg, text) == error_msg = text

VoiceLookups == {"LeadId__c", "AccountId__c", "ContactId__c", "OpportunityId__c", "CaseId__c"}
LeadConversionFields == {"ConvertedContactId", "ConvertedAccountId", "ConvertedDate",
                         "ConvertedOpportunityId"}

\* the branch of the if/elif chain a failed outcome falls in
Branch(object_name, p) ==
    LET status_code == p.statusCode
        error_msg   == p.message
    IN
    IF ~p.present THEN "no details"
    ELSE IF status_code = "DUPLICATE_USERNAME" /\ object_name = "User" THEN "warn"
    ELSE IF status_code = "LICENSE_LIMIT_EXCEEDED" /\ object_name = "User" THEN "warn"
    ELSE IF status_code = "INSUFFICIENT_ACCESS" /\ Mentions(error_msg, "Manage Users")
         THEN "error"
    ELSE IF status_code = "INVALID_CROSS_REFERENCE_KEY" /\ object_name = "ProductCategory"
         THEN "warn"
    ELSE IF status_code = "STANDARD_PRICE_NOT_DEFINED" /\ object_name = "PricebookEntry"
         THEN "warn"
    ELSE IF status_code = "DUPLICATE_VALUE" /\ object_name = "PricebookEntry" THEN "warn"
    ELSE IF status_code = "INVALID_FIELD" /\ Mentions(error_msg, "CaseId__c")
              /\ object_name = "CaseHistory__c" THEN "warn"
    ELSE IF status_code = "INVALID_FIELD" /\ Mentions(error_msg, "RelatedToId")
              /\ object_name = "EmailMessage" THEN "warn"
    ELSE IF status_code = "INSUFFICIENT_ACCESS_ON_CROSS_REFERENCE_ENTITY"
              /\ object_name = "LiveChatTranscript" THEN "warn"
    ELSE IF status_code = "INVALID_FIELD" THEN "warn"
    ELSE IF status_code = "INVALID_FIELD_FOR_INSERT_UPDATE"
         THEN (IF \/ object_name \in {"OpportunityLineItem", "QuoteLineItem"}
                       /\ Mentions(error_msg, "TotalPrice")
                  \/ object_name = "Lead"
                       /\ \E f \in LeadConversionFields : Mentions(error_msg, f)
               THEN "warn" ELSE "error")
    ELSE IF status_code = "FIELD_INTEGRITY_EXCEPTION" /\ object_name = "Lead"
         THEN (IF Mentions(error_msg, "Converted Account")
                    \/ Mentions(error_msg, "ConvertedAccountId")
               THEN "warn" ELSE "error")
    ELSE IF status_code = "DUPLICATES_DETECTED" /\ object_name = "Lead" THEN "warn"
    ELSE IF status_code = "REQUIRED_FIELD_MISSING" /\ object_name = "Territory2"
         THEN (IF Mentions(error_msg, "DeveloperName") THEN "warn" ELSE "error")
    ELSE IF status_code = "REQUIRED_FIELD_MISSING" /\ object_name = "Quote"
         THEN "quote warn"
    ELSE IF status_code = "INVALID_CROSS_REFERENCE_KEY"
         THEN (IF object_name = "Quote" THEN "quote warn" ELSE "warn")
    ELSE IF object_name = "Contact"
              /\ status_code \in {"DUPLICATE_VALUE", "DUPLICATES_DETECTED"}
         THEN "contact duplicate"
    ELSE IF object_name = "Quote" THEN "quote other"
    ELSE "error"

\* handled_as_warning at line 1917; recovered: the Contact branch reached its
\* assignment
handled_as_warning(object_name, p, shown, recovered) ==
    LET b == Branch(object_name, p) IN
    \/ b \in {"warn", "quote warn"}
    \/ b = "contact duplicate" /\ recovered
    \/ b = "quote other" /\ shown < QuoteErrorsLimit

\* quote_errors_shown after the outcome
QuoteShownAfter(object_name, p, shown) ==
    IF Branch(object_name, p) \in {"quote warn", "quote other"} /\ shown < QuoteErrorsLimit
    THEN shown + 1 ELSE shown

\* the Contacts the recovery query can return for the record of a failed outcome
ContactsByEmail(tgt, recs, idx) ==
    IF idx <= Len(recs) /\ ~Falsy(Get(recs[idx], "Email"))
    THEN {r \in tgt : r.object = "Contact" /\ Get(r.fields, "Email") = recs[idx]["Email"]}
    ELSE {}

(***************************************************************************)
(* upload_object: the passes before the transform loop                     *)
(***************************************************************************)
\* df["LiveChatVisitorId"].dropna().unique().tolist()
RECURSIVE Unique(_, _)
Unique(seq, seen) ==
    IF seq = <<>> THEN <<>>
    ELSE IF seq[1] = NULL \/ seq[1] \in seen THEN Unique(Tail(seq), seen)
    ELSE <<seq[1]>> \o Unique(Tail(seq), seen \cup {seq[1]})

VisitorIds(rows) == Unique([i \in 1..Len(rows) |-> Get(rows[i], "LiveChatVisitorId")], {})

\* what a visitor can meet: sf.LiveChatVisitor.create raising, or save_mapping
\* raising in execute or in commit
VisitorFaults == {"ok", "create", "execute", "commit"}

\* st: the store, the org and what the pass has created and saved so far
RECURSIVE _create_livechat_visitors_from_ids(_, _, _)
_create_livechat_visitors_from_ids(st, visitor_ids, faults) ==
    IF visitor_ids = <<>> THEN st
    ELSE LET old_visitor_id == visitor_ids[1]
             new_visitor_id == NewId(st.nextId)
             db  == save_mapping(st, "LiveChatVisitor", old_visitor_id, new_visitor_id,
                                 IF faults[1] = "create" THEN "ok" ELSE faults[1])
             st1 == IF ~Falsy(get_mapping(st.cache, "LiveChatVisitor", old_visitor_id))
                       \/ faults[1] = "create"
                    THEN st
                    ELSE [st EXCEPT
                            !.cache = db.cache,
                            !.table = db.table,
                            !.durable = IF db.commit THEN db.table ELSE @,
                            !.target = @ \cup {OrgRecord("LiveChatVisitor",
                                                         new_visitor_id, EmptyRecord)},
                            !.nextId = @ + 1,
                            !.created = @ \cup {[src |-> old_visitor_id,
                                                 id |-> new_visitor_id]},
                            !.saved = IF faults[1] = "execute" \/ Falsy(old_visitor_id)
                                      THEN @
                                      ELSE @ \cup {[old_id |-> old_visitor_id,
                                                    new_id |-> new_visitor_id]}]
         IN  _create_livechat_visitors_from_ids(st1, Tail(visitor_ids), Tail(faults))

\* the products that need an entry in the standard price book
StandardEntriesNeeded(rows, c, tgt) ==
    LET product_ids_needed ==
            {map_id(c, Get(rows[i], "Product2Id"), "Product2") :
                i \in {j \in 1..Len(rows) :
                        /\ ~Falsy(map_id(c, Get(rows[j], "Product2Id"), "Product2"))
                        /\ ~Falsy(map_id(c, Get(rows[j], "Pricebook2Id"), "Pricebook2"))
                        /\ map_id(c, Get(rows[j], "Pricebook2Id"), "Pricebook2")
                              # StandardPricebookId}}
        existing_products ==
            {Get(r.fields, "Product2Id") :
                r \in {x \in tgt : /\ x.object = "PricebookEntry"
                                   /\ Get(x.fields, "Pricebook2Id") = StandardPricebookId}}
    IN  product_ids_needed \ existing_products

\* _ensure_standard_pricebook_entries: the bulk insert of the missing
\* standard entries; the order of a Python set is not part of the outcome
RECURSIVE _ensure_standard_pricebook_entries(_, _)
_ensure_standard_pricebook_entries(org, products_to_create) ==
    IF products_to_create = {} THEN org
    ELSE LET product_id == CHOOSE x \in products_to_create : TRUE
             id == NewId(org.nextId)
         IN  _ensure_standard_pricebook_entries(
                [org EXCEPT
                    !.target = @ \cup {OrgRecord("PricebookEntry", id,
                                        [Pricebook2Id |-> StandardPricebookId,
                                         Product2Id |-> product_id,
                                         UnitPrice |-> "0", IsActive |-> "True"])},
                    !.nextId = @ + 1,
                    !.created = @ \cup {[src |-> NULL, id |-> id]}],
                products_to_create \ {product_id})

\* the queries of the passes that can raise
QueryFaults(object_name) ==
    CASE object_name = "User" -> {"profile query", "username query"}
      [] object_name = "Knowledge__kav" -> {"urlname query"}
      [] object_name = "PricebookEntry" -> {"standard pricebook query"}
      [] object_name = "LiveChatTranscript" -> {"live agent"}
      [] object_name \in {"Task", "Event"} -> {"current user query"}
      [] OTHER -> {}

\* SELECT Username FROM User, lower-cased
ExistingUsernames(tgt) ==
    {Lower(Get(r.fields, "Username")) : r \in {x \in tgt : x.object = "User"}}

\* SELECT UrlName FROM Knowledge__kav over the three publish statuses
ExistingUrlNames(tgt) ==
    {Lower(r.fields["UrlName"]) :
        r \in {x \in tgt : x.object = "Knowledge__kav" /\ ~Falsy(Get(x.fields, "UrlName"))}}

\* the User and Knowledge__kav blocks and the clean-up, over the loop's output
Blocks(object_name, loop, users, articles) ==
    [records |-> IF loop.records = <<>> THEN <<>>
                 ELSE IF object_name = "User"
                 THEN [i \in 1..Len(users.records) |-> CleanUp(object_name, users.records[i])]
                 ELSE IF object_name = "Knowledge__kav"
                 THEN [i \in 1..Len(articles) |-> CleanUp(object_name, articles[i])]
                 ELSE [i \in 1..Len(loop.records) |-> CleanUp(object_name, loop.records[i])],
     transformed |-> Len(loop.records),
     old_ids |-> loop.old_ids,
     rec_src |-> IF object_name = "User" /\ loop.records # <<>>
                 THEN users.srcs ELSE loop.old_ids]

UsersOf(object_name, loop, tgt, qf) ==
    IF object_name # "User" THEN [records |-> <<>>, srcs |-> <<>>]
    ELSE UserBlock(loop.records, loop.old_ids,
                   IF "username query" \in qf THEN {} ELSE ExistingUsernames(tgt),
                   IF "profile query" \in qf THEN NULL ELSE DefaultProfileId)

ArticlesOf(object_name, loop, tgt, qf, clock) ==
    IF object_name # "Knowledge__kav" THEN <<>>
    ELSE KnowledgeBlock(loop.records,
                        IF "urlname query" \in qf THEN {} ELSE ExistingUrlNames(tgt),
                        clock)

Blocked(object_name, loop, tgt, qf, clock) ==
    Blocks(object_name, loop, UsersOf(object_name, loop, tgt, qf),
           ArticlesOf(object_name, loop, tgt, qf, clock))

\* lines 857-1464: the records, the old_ids list and, beside them, the source
\* id each record was built from
Prepared(object_name, rows, c, tgt, qf, clock) ==
    Blocked(object_name, TransformRows(object_name, rows, c, qf), tgt, qf, clock)

(***************************************************************************)
(* The source datasets and the runs of the model                           *)
(***************************************************************************)
MaxRuns == 2
MaxClears == 1

NoRows == [o \in ObjectNames |-> <<>>]

With(src, o, rows) == [src EXCEPT ![o] = rows]

\* two User rows, the first with an address the User block rejects, and an
\* Account owned by the second
UsersData ==
    With(With(NoRows,
      "User", << [Id |-> "005u1", Email |-> "bad", LastName |-> "Ng"],
                 [Id |-> "005u2", Email |-> "u2@x.com", LastName |-> "Roy"] >>),
      "Account", << [Id |-> "001a1", Name |-> "Acme", OwnerId |-> "005u2"] >>)

\* Accounts and the Contacts that reference them
ContactsData ==
    With(With(NoRows,
      "Account", << [Id |-> "001a1", Name |-> "Acme"],
                    [Id |-> "001a2", Name |-> "Bolt"] >>),
      "Contact", << [Id |-> "003c1", LastName |-> "Ann", Email |-> "e1", AccountId |-> "001a1"],
                    [Id |-> "003c2", LastName |-> "Bob", Email |-> "e2", AccountId |-> "001a2"],
                    [Id |-> "003c3", LastName |-> "Cy", Email |-> "e1", AccountId |-> "001a1"] >>)

\* a price book entry with both references in the source, and one whose
\* product is not in the source
PricesData ==
    With(With(With(NoRows,
      "Product2", << [Id |-> "01tp1", Name |-> "Bike"] >>),
      "Pricebook2", << [Id |-> "01sb1", Name |-> "Retail"] >>),
      "PricebookEntry",
         << [Id |-> "01ue1", Product2Id |-> "01tp1", Pricebook2Id |-> "01sb1",
             UnitPrice |-> "10"],
            [Id |-> "01ue2", Product2Id |-> "01tpX", Pricebook2Id |-> "01sb1",
             UnitPrice |-> "5"] >>)

\* two articles, the UrlName of the second being the UrlName of the first
\* with a suffix the clock can give
KnowledgeData ==
    With(NoRows, "Knowledge__kav",
         << [Id |-> "kA0k1", Title |-> "FAQ", UrlName |-> "FAQ"],
            [Id |-> "kA0k2", Title |-> "More", UrlName |-> "FAQ-1"] >>)

ChatData ==
    With(With(NoRows,
      "Account", << [Id |-> "001a1", Name |-> "Acme"] >>),
      "LiveChatTranscript",
         << [Id |-> "570t1", LiveChatVisitorId |-> "v1", AccountId |-> "001a1",
             Body |-> "hi"] >>)

\* one row of each of a chain of types that reference each other
ChainData ==
    With(With(With(With(With(With(With(With(NoRows,
      "Account", << [Id |-> "001a1", Name |-> "Acme"] >>),
      "Contact", << [Id |-> "003c1", LastName |-> "Ann", AccountId |-> "001a1"] >>),
      "Opportunity", << [Id |-> "006o1", Name |-> "Deal", AccountId |-> "001a1",
                         ContactId |-> "003c1"] >>),
      "Quote", << [Id |-> "0Q0q1", Name |-> "Q", OpportunityId |-> "006o1"] >>),
      "Order", << [Id |-> "801r1", AccountId |-> "001a1", Status |-> "Activated"] >>),
      "Case", << [Id |-> "500k1", Subject |-> "Help", AccountId |-> "001a1",
                  ContactId |-> "003c1", OwnerId |-> "005u9"] >>),
      "Task", << [Id |-> "00Tt1", Subject |-> "Call", WhatId |-> "006o1",
                  WhoId |-> "003c1", OwnerId |-> "005u9"],
                 [Id |-> "00Tt2", Subject |-> "Ship", WhatId |-> "801r1",
                  WhoId |-> "00Ql1", OwnerId |-> "005u9"] >>),
      "EmailMessage", << [Id |-> "02sm1", Subject |-> "Re", ParentId |-> "500k1"] >>)

\* rows whose references are not in the source: an Order and a Contact of an
\* Account that is not there, an OrderItem of an Order that is not there
ItemsData ==
    With(With(With(With(NoRows,
      "Contact", << [Id |-> "003c9", LastName |-> "Poe", AccountId |-> "001aX"] >>),
      "Order", << [Id |-> "801r2", AccountId |-> "001aX", Status |-> "Draft"] >>),
      "OrderItem", << [Id |-> "802i1", OrderId |-> "801rX", Quantity |-> "1"] >>),
      "Event", << [Id |-> "00Ue1", Subject |-> "Meet", OwnerId |-> "005u9"] >>)

\* rows that carry the attributes the target system computes itself
AuditData ==
    With(With(With(With(NoRows,
      "Lead", << [Id |-> "00Ql1", LastName |-> "Lee", Company |-> "Co",
                  IsConverted |-> "1", ConvertedAccountId |-> "001aX",
                  ConvertedDate |-> "2020-01-01", CreatedDate |-> "2019-01-01"] >>),
      "OpportunityLineItem",
         << [Id |-> "00kx1", Quantity |-> "2", TotalPrice |-> "20",
             SystemModstamp |-> "2019-01-01"] >>),
      "QuoteLineItem",
         << [Id |-> "0QLy1", Quantity |-> "2", TotalPrice |-> "20", UnitPrice |-> "7",
             LastModifiedDate |-> "2019-01-01"] >>),
      "Case", << [Id |-> "500k2", Subject |-> "Late", ClosedDate |-> "2021-01-01",
                  CreatedDate |-> "2019-01-01"] >>)

\* two converted Leads: one whose Account and Contact are in the source, one
\* whose Contact is not
ConvertData ==
    With(With(With(NoRows,
      "Account", << [Id |-> "001a1", Name |-> "Acme"] >>),
      "Lead", << [Id |-> "00Ql1", LastName |-> "Lee", Company |-> "Co",
                  IsConverted |-> "1", ConvertedAccountId |-> "001a1",
                  ConvertedContactId |-> "003c1"],
                 [Id |-> "00Ql2", LastName |-> "Moe", Company |-> "Co",
                  IsConverted |-> "1", ConvertedAccountId |-> "001a1",
                  ConvertedContactId |-> "003c9"] >>),
      "Contact", << [Id |-> "003c1", LastName |-> "Ann", AccountId |-> "001a1"] >>)

Datasets ==
    {UsersData, ContactsData, PricesData, KnowledgeData, ChatData, ChainData, ItemsData,
     AuditData, ConvertData}

\* every id a source row or a reference of the model can carry
SourceIds ==
    {"005u1", "005u2", "005u9", "001a1", "001a2", "003c1", "003c2", "003c3",
     "01tp1", "01tpX", "01sb1", "01ue1", "01ue2", "kA0k1", "570t1", "v1",
     "006o1", "0Q0q1", "801r1", "500k1", "00Tt1", "02sm1", "s1", "s2", "s3",
     "s4", "s5", "s6", "s7", "003c9", "001aX", "801r2", "801rX", "802i1",
     "00Ql1", "00kx1", "0QLy1", "500k2", "00Tt2", "00Ue1", "00Ql2", "kA0k2"}

TypesOf(src) == {o \in Range(UPLOAD_ORDER) : src[o] # <<>>}

\* the types the command lines of the model name with --only and with --skip
OnlyTypes == {"Contact", "PricebookEntry", "Knowledge__kav", "LiveChatTranscript", "User"}
SkipTypes == {"Account", "Product2", "Lead"}

Config(q, skip, dry) == [queue |-> q, skip |-> skip, dry_run |-> dry]

\* --only with two types, as the caller wrote them
OnlyLists == {<<"Contact", "Account">>}

\* the command lines of the model: everything, a dry run, one type only
\* (--only), two types only, everything but one type (--skip)
RunConfigs(src) ==
    {Config(UPLOAD_ORDER, {}, FALSE), Config(UPLOAD_ORDER, {}, TRUE)}
        \cup {Config(<<o>>, {}, FALSE) : o \in TypesOf(src) \cap OnlyTypes}
        \cup {Config(q, {}, FALSE) : q \in {l \in OnlyLists : Range(l) \subseteq TypesOf(src)}}
        \cup {Config(UPLOAD_ORDER, {o}, FALSE) : o \in TypesOf(src) \cap SkipTypes}

Summary(u, s, e) == [uploaded |-> u, skipped |-> s, errors |-> e]

\* the failures the org answers a record with in the runs of the model
RecordFaults(object_name) ==
    IF object_name = "Contact"
    THEN {Payload("DUPLICATES_DETECTED", "duplicate"), Payload("UNKNOWN_EXCEPTION", "other")}
    ELSE {Payload("UNKNOWN_EXCEPTION", "other")}

NonOk(f, ok) == Cardinality({i \in DOMAIN f : f[i] # ok})

\* this run is a re-run of one type whose mappings were cleared before it
RerunOf ==
    IF Len(queue) = 1 /\ cleared = {queue[1]} /\ queue[1] \in everRan
    THEN queue[1] ELSE NULL

(***************************************************************************)
(* DataUploader.upload_all and upload_object as steps                      *)
(***************************************************************************)
batchVars == <<records, old_ids, rec_src, results>>
loopVars == <<ridx, uploaded, errors, quote_errors_shown>>
runVars == <<source, run, dry_run, queue, skip_objects, runStart>>
orgVars == <<target, nextId, created>>
dbVars == <<cache, table, committed>>

UploadInit ==
    /\ source \in Datasets
    /\ target = InitialOrg /\ nextId = 0
    /\ cache = EmptyCache(ObjectNames, SourceIds) /\ table = {} /\ committed = {}
    /\ lastWrite = EmptyCache(StoreObjects, StoreOldIds)
    /\ failures = 0
    /\ lastOp = [op |-> "init", object_name |-> NULL, repeats |-> FALSE, raised |-> FALSE]
    /\ run = 0 /\ dry_run = FALSE /\ queue = <<>> /\ skip_objects = {} /\ pos = 1
    /\ phase = "idle"
    /\ records = <<>> /\ old_ids = <<>> /\ rec_src = <<>> /\ results = <<>>
    /\ ridx = 1 /\ uploaded = 0 /\ errors = 0 /\ quote_errors_shown = 0
    /\ stats = EmptyRecord /\ created = {} /\ submitted = {} /\ mapLog = {} /\ asked = {}
    /\ passDone = {} /\ runStart = EmptyCache(ObjectNames, SourceIds)
    /\ judged = {} /\ cleared = {} /\ everRan = {}
    /\ conversions = <<>>

\* main: a new DataUploader with a new IdMappingDB, then upload_all up to its loop
StartRun ==
    /\ phase = "idle" /\ run < MaxRuns
    /\ \E cfg \in RunConfigs(source) :
          /\ queue' = cfg.queue
          /\ skip_objects' = cfg.skip
          /\ dry_run' = cfg.dry_run
    /\ run' = run + 1 /\ pos' = 1 /\ phase' = "pending"
    /\ cache' = LoadCache(committed, ObjectNames, SourceIds)
    /\ table' = committed
    /\ runStart' = cache'
    /\ stats' = EmptyRecord /\ passDone' = {} /\ asked' = {}
    /\ UNCHANGED <<committed, lastWrite, failures, lastOp, source, orgVars, batchVars,
                   loopVars, submitted, mapLog, judged, cleared, everRan, conversions>>

\* IdMappingDB().clear_object(T) between two runs
ClearType ==
    /\ phase = "idle" /\ 0 < run /\ run < MaxRuns
    /\ Cardinality(cleared) < MaxClears
    /\ \E T \in TypesOf(source) \cap OnlyTypes, fail \in MayFail :
        LET db == clear_object([cache |-> LoadCache(committed, ObjectNames, SourceIds),
                                table |-> committed], T, fail)
        IN  /\ cache' = db.cache
            /\ table' = db.table
            /\ committed' = Durable(db)
            /\ Raised(db)
            /\ lastOp' = Op("clear_object", T, FALSE, db)
            /\ cleared' = IF db.raised THEN cleared ELSE cleared \cup {T}
    /\ UNCHANGED <<lastWrite, runVars, orgVars, batchVars, loopVars, pos, phase, stats,
                   submitted, mapLog, asked, passDone, judged, everRan, conversions>>

\* main --clear-mappings: clear_all when the store holds any mapping
ClearMappings ==
    /\ phase = "idle" /\ 0 < run /\ run < MaxRuns
    /\ Cardinality(committed) > 0
    /\ cleared = {}
    /\ \E fail \in MayFail :
        LET db == clear_all([cache |-> LoadCache(committed, ObjectNames, SourceIds),
                             table |-> committed], fail)
        IN  /\ cache' = db.cache
            /\ table' = db.table
            /\ committed' = Durable(db)
            /\ Raised(db)
            /\ lastOp' = Op("clear_all", NULL, FALSE, db)
            /\ cleared' = IF db.raised THEN cleared ELSE ObjectNames
    /\ UNCHANGED <<lastWrite, runVars, orgVars, batchVars, loopVars, pos, phase, stats,
                   submitted, mapLog, asked, passDone, judged, everRan, conversions>>

\* a loop of upload_all that stops at the first object with errors
StopOnErrors(object_name, summary) ==
    /\ stats' = Put(stats, object_name, summary)
    /\ pos' = IF summary.errors > 0 THEN Len(queue) + 1 ELSE pos + 1
    /\ phase' = "pending"
    /\ passDone' = passDone \cup {object_name}
    /\ records' = <<>> /\ old_ids' = <<>> /\ rec_src' = <<>> /\ results' = <<>>
    /\ ridx' = 1 /\ uploaded' = 0 /\ errors' = 0 /\ quote_errors_shown' = 0

\* a loop of upload_all that stays at the object it has just finished
RepeatsObject(object_name, summary) ==
    /\ stats' = Put(stats, object_name, summary)
    /\ pos' = pos
    /\ phase' = "pending"
    /\ passDone' = passDone \cup {object_name}
    /\ records' = <<>> /\ old_ids' = <<>> /\ rec_src' = <<>> /\ results' = <<>>
    /\ ridx' = 1 /\ uploaded' = 0 /\ errors' = 0 /\ quote_errors_shown' = 0

\* upload_object returns `summary` (or upload_all's except clause records
\* it): the loop of upload_all moves to the next object
Return(object_name, summary) ==
    /\ stats' = Put(stats, object_name, summary)
    /\ pos' = pos + 1
    /\ phase' = "pending"
    /\ passDone' = passDone \cup {object_name}
    /\ records' = <<>> /\ old_ids' = <<>> /\ rec_src' = <<>> /\ results' = <<>>
    /\ ridx' = 1 /\ uploaded' = 0 /\ errors' = 0 /\ quote_errors_shown' = 0

\* upload_all: `if object_name in skip_objects: continue`
SkipObject ==
    /\ phase = "pending" /\ pos <= Len(queue) /\ queue[pos] \in skip_objects
    /\ pos' = pos + 1
    /\ passDone' = passDone \cup {queue[pos]}
    /\ UNCHANGED <<storeVars, runVars, orgVars, batchVars, loopVars, phase, stats,
                   submitted, mapLog, asked, judged, cleared, everRan, conversions>>

\* upload_object up to the submission (lines 807-1599).  In every dataset
\* of the model the join of Order and OrderItem on OrderId is empty, so that
\* _ensure_pricebook_entries_for_orders returns at its `if not entries_needed`.
Prepare ==
    /\ phase = "pending" /\ pos <= Len(queue) /\ queue[pos] \notin skip_objects
    /\ LET object_name == queue[pos]
           rows        == source[object_name]
           visitor_ids == IF object_name = "LiveChatTranscript"
                          THEN VisitorIds(rows) ELSE <<>>
       IN
       \E vf \in [1..Len(visitor_ids) -> VisitorFaults],
          qf \in SUBSET QueryFaults(object_name),
          clock \in [1..(IF object_name = "Knowledge__kav" THEN Len(rows) ELSE 0)
                        -> Suffixes] :
       \E st \in {_create_livechat_visitors_from_ids(
                      [cache |-> cache, table |-> table, durable |-> committed,
                       target |-> target, nextId |-> nextId, created |-> {},
                       saved |-> {}], visitor_ids, vf)} :
       \E std \in {IF /\ object_name = "PricebookEntry" /\ rows # <<>> /\ ~dry_run
                       /\ "standard pricebook query" \notin qf
                    THEN _ensure_standard_pricebook_entries(
                             Org(st.target, st.nextId),
                             StandardEntriesNeeded(rows, st.cache, st.target))
                    ELSE Org(st.target, st.nextId)} :
       \E prep \in {Prepared(object_name, rows, st.cache, std.target, qf, clock)} :
        LET nfaults == NonOk(vf, "ok") + Cardinality(qf)
            outcome == IF rows = <<>> THEN "empty"
                       ELSE IF dry_run THEN "dry run"
                       ELSE IF prep.records = <<>> THEN "no records"
                       ELSE IF "live agent" \in qf THEN "no live agent"
                       ELSE "prepared"
        IN  /\ nfaults <= MaxFailures - failures
            /\ \A i \in 1..Len(visitor_ids) :
                  vf[i] # "ok" => Falsy(get_mapping(cache, "LiveChatVisitor", visitor_ids[i]))
            /\ (rows = <<>> \/ dry_run) => qf = {}
            /\ prep.transformed = 0 => qf \subseteq {"standard pricebook query"}
            /\ "current user query" \in qf =>
                  \E i \in 1..Len(rows) :
                     UsesCurrentUser(object_name, "OwnerId", Get(rows[i], "OwnerId"),
                                     st.cache)
            /\ failures' = failures + nfaults
            /\ cache' = st.cache /\ table' = st.table /\ committed' = st.durable
            /\ target' = std.target /\ nextId' = std.nextId
            /\ created' = created
                 \cup {[object |-> "LiveChatVisitor", src |-> e.src, id |-> e.id,
                        run |-> run, mode |-> "create",
                        mapped |-> ~Falsy(get_mapping(runStart, "LiveChatVisitor", e.src)),
                        retained |-> cleared = {}] : e \in st.created}
                 \cup {[object |-> "PricebookEntry", src |-> e.src, id |-> e.id,
                        run |-> run, mode |-> "standard", mapped |-> FALSE,
                        retained |-> cleared = {}] : e \in std.created}
            /\ mapLog' = mapLog
                 \cup {[by |-> "visitor", object |-> "LiveChatVisitor",
                        old_id |-> m.old_id, src |-> m.old_id, new_id |-> m.new_id,
                        run |-> run, mode |-> "create", rerun |-> RerunOf] : m \in st.saved}
            /\ asked' = IF outcome \in {"empty", "dry run"} THEN asked
                        ELSE asked \cup Lookups(object_name, rows,
                                 passDone \cup (IF object_name = "LiveChatTranscript"
                                                THEN {"LiveChatVisitor"} ELSE {}))
            /\ IF outcome = "prepared"
               THEN /\ phase' = "prepared"
                    /\ records' = prep.records
                    /\ old_ids' = prep.old_ids
                    /\ rec_src' = prep.rec_src
                    /\ UNCHANGED <<results, loopVars, pos, stats, passDone>>
               ELSE Return(object_name,
                      CASE outcome = "dry run" -> Summary(Len(rows), 0, 0)
                        [] outcome = "no live agent" -> Summary(0, Len(prep.records), 0)
                        [] OTHER -> Summary(0, 0, 0))
    /\ UNCHANGED <<lastWrite, lastOp, runVars, submitted, judged, cleared, everRan, conversions>>

\* upload_object, lines 1600-1716: the choice between upsert and insert and
\* the call.  describe: how <object>.describe() ends; call: how the bulk
\* upsert ends ("not found" is the error the code answers by falling back to
\* insert); a call that raises leaves the org as it was.
Submit ==
    /\ phase = "prepared"
    /\ LET object_name == queue[pos]
           asks == object_name \notin {"Knowledge__kav", "User"}
       IN
       \E describe \in {"ok", "raises"}, call \in {"ok", "not found", "raises"},
          faults \in [1..Len(records) -> {NoFault} \cup RecordFaults(object_name)] :
        LET use_upsert == asks /\ describe = "ok" /\ call # "not found"
            sent == IF use_upsert THEN records
                    ELSE [i \in 1..Len(records) |-> Drop(records[i], {"OriginalId__c"})]
            org  == BulkSubmit(Org(target, nextId), object_name, use_upsert,
                               sent, rec_src, faults)
            mode == IF use_upsert THEN "upsert" ELSE "insert"
            nfaults == NonOk(faults, NoFault)
                         + (IF describe = "ok" THEN 0 ELSE 1)
                         + (IF call = "ok" THEN 0 ELSE 1)
        IN  /\ nfaults <= MaxFailures - failures
            /\ describe = "raises" => asks
            /\ call = "not found" => asks /\ describe = "ok"
            /\ call = "raises" => NonOk(faults, NoFault) = 0
            /\ failures' = failures + nfaults
            /\ IF call = "raises"
               THEN /\ Return(object_name, Summary(0, 0, Len(records)))
                    /\ UNCHANGED <<orgVars, submitted>>
               ELSE /\ phase' = "submitted"
                    /\ records' = sent
                    /\ results' = org.results
                    /\ target' = org.target
                    /\ nextId' = org.nextId
                    /\ created' = created
                         \cup {[object |-> object_name, src |-> e.src, id |-> e.id,
                                run |-> run, mode |-> mode,
                                mapped |-> ~Falsy(get_mapping(runStart, object_name, e.src)),
                                retained |-> cleared = {}] : e \in org.created}
                    /\ submitted' = submitted
                         \cup {[object |-> object_name, src |-> rec_src[i],
                                record |-> sent[i], run |-> run, mode |-> mode] :
                                  i \in 1..Len(sent)}
                    /\ ridx' = 1 /\ uploaded' = 0 /\ errors' = 0
                    /\ quote_errors_shown' = 0
                    /\ UNCHANGED <<old_ids, rec_src, pos, stats, passDone>>
    /\ UNCHANGED <<dbVars, lastWrite, lastOp, runVars, mapLog, asked, judged, cleared,
                   everRan, conversions>>

\* one pass of the result loop (lines 1723-1929) over results[ridx].
\* fault: the recovery query of a duplicate Contact raises, or its
\* save_mapping raises; existing_id: the Contact the query returns
ReconcileStep ==
    /\ phase = "submitted" /\ ridx <= Len(results)
    /\ LET object_name == queue[pos]
           result      == results[ridx]
           found       == {r.Id : r \in ContactsByEmail(target, records, ridx)}
           duplicate   == /\ ~result.success
                          /\ Branch(object_name, result.error) = "contact duplicate"
                          /\ ridx <= Len(records) /\ ~Falsy(Get(records[ridx], "Email"))
       IN
       \E fault \in {"ok", "query", "execute", "commit"}, existing_id \in found \cup {NULL} :
        LET saves == /\ duplicate /\ fault # "query" /\ existing_id # NULL
                     /\ ridx <= Len(old_ids) /\ ~Falsy(old_ids[ridx])
            db == IF saves
                  THEN save_mapping(StoreNow, "Contact", old_ids[ridx], existing_id, fault)
                  ELSE StoreNow
            recovered == saves /\ ~db.raised
            counted == ~result.success
                         /\ ~handled_as_warning(object_name, result.error,
                                                quote_errors_shown, recovered)
        IN  /\ fault # "ok" => failures < MaxFailures
            /\ fault = "query" => duplicate
            /\ fault \in {"execute", "commit"} => saves
            /\ (existing_id = NULL) = (found = {} \/ ~duplicate \/ fault = "query")
            /\ failures' = failures + (IF fault = "ok" THEN 0 ELSE 1)
            /\ cache' = db.cache /\ table' = db.table /\ committed' = Durable(db)
            /\ uploaded' = uploaded + (IF result.success THEN 1 ELSE 0)
            /\ errors' = errors + (IF counted THEN 1 ELSE 0)
            /\ quote_errors_shown' =
                 IF result.success THEN quote_errors_shown
                 ELSE QuoteShownAfter(object_name, result.error, quote_errors_shown)
            /\ judged' = IF result.success THEN judged
                         ELSE judged \cup {[object |-> object_name,
                                            payload |-> result.error,
                                            counted |-> counted]}
            /\ mapLog' = IF saves /\ fault # "execute"
                         THEN mapLog \cup {[by |-> "recovery", object |-> "Contact",
                                            old_id |-> old_ids[ridx], src |-> rec_src[ridx],
                                            new_id |-> existing_id, run |-> run,
                                            mode |-> "recovery", rerun |-> RerunOf]}
                         ELSE mapLog
    /\ ridx' = ridx + 1
    /\ UNCHANGED <<lastWrite, lastOp, runVars, orgVars, batchVars, pos, phase, stats,
                   submitted, asked, passDone, cleared, everRan, conversions>>

\* results[i] and old_ids[i] side by side
Paired(res, olds) ==
    [i \in 1..Len(res) |-> <<IF i <= Len(olds) THEN olds[i] ELSE NULL, res[i].id, i>>]

\* mappings_to_save (lines 1934-1945), each pair with the index it came from
MappingsToSave(res, olds) ==
    SelectSeq(Paired(res, olds),
              LAMBDA m : /\ res[m[3]].success /\ m[3] <= Len(olds)
                         /\ ~Falsy(m[1]) /\ ~Falsy(m[2]))

\* after the loop: save_mappings_batch and the summary (lines 1931-1960)
ReconcileDone ==
    /\ phase = "submitted" /\ ridx > Len(results)
    /\ LET object_name == queue[pos]
           mappings_to_save == MappingsToSave(results, old_ids)
       IN
       \E fail \in MayFail :
        LET db == save_mappings_batch(StoreNow, object_name, mappings_to_save, fail) IN
        /\ fail # "ok" => mappings_to_save # <<>>
        /\ cache' = db.cache /\ table' = db.table /\ committed' = Durable(db)
        /\ Raised(db)
        /\ mapLog' = IF fail = "execute" THEN mapLog
                     ELSE mapLog \cup
                          {[by |-> "batch", object |-> object_name,
                            old_id |-> mappings_to_save[j][1],
                            src |-> rec_src[mappings_to_save[j][3]],
                            new_id |-> mappings_to_save[j][2], run |-> run,
                            mode |-> IF \E x \in submitted :
                                          x.object = object_name /\ x.run = run
                                            /\ x.mode = "upsert"
                                     THEN "upsert" ELSE "insert",
                            rerun |-> RerunOf] : j \in 1..Len(mappings_to_save)}
        /\ Return(object_name,
                  IF db.raised THEN Summary(0, 0, Len(records))
                  ELSE Summary(uploaded, 0, errors))
    /\ UNCHANGED <<lastWrite, lastOp, runVars, orgVars, submitted, asked, judged,
                   cleared, everRan, conversions>>

\* convert_leads_post_upload: the rows of
\* SELECT ... FROM Lead WHERE IsConverted = 1 AND ConvertedAccountId IS NOT
\* NULL AND ConvertedContactId IS NOT NULL
ConvertedLeads(src) ==
    {row \in Range(src["Lead"]) :
        /\ Get(row, "IsConverted") = "1"
        /\ Get(row, "ConvertedAccountId") # NULL
        /\ Get(row, "ConvertedContactId") # NULL}

\* the ids the loop body reads from the store for a converted Lead
ConvertCall(c, row) ==
    [lead |-> row.Id,
     new_lead_id |-> get_mapping(c, "Lead", row.Id),
     new_account_id |-> get_mapping(c, "Account", row.ConvertedAccountId),
     new_contact_id |-> get_mapping(c, "Contact", row.ConvertedContactId)]

\* a loop that converts without looking at what the store answered
ConvertsUnmapped(call) == TRUE

\* none of the three `if not new_..._id: continue` is taken
Convertible(call) ==
    /\ ~Falsy(call.new_lead_id)
    /\ ~Falsy(call.new_account_id)
    /\ ~Falsy(call.new_contact_id)

\* the calls sf.restful('sobjects/Lead/<id>/convert') of one post-pass
ConvertCalls(c, src) ==
    {call \in {ConvertCall(c, row) : row \in ConvertedLeads(src)} : Convertible(call)}

\* the org after the convert calls that succeeded
LeadsConverted(tgt, calls) ==
    {IF r.object = "Lead" /\ r.Id \in {call.new_lead_id : call \in calls}
     THEN LET call == CHOOSE x \in calls : x.new_lead_id = r.Id
          IN  OrgRecord("Lead", r.Id,
                  Put(Put(Put(r.fields, "IsConverted", "True"),
                          "ConvertedAccountId", call.new_account_id),
                      "ConvertedContactId", call.new_contact_id))
     ELSE r : r \in tgt}

\* upload_all after its loop: the Lead conversion post-pass, when its
\* condition holds, with the convert calls in `failed` raising or answered
\* without success.  The process ends: what its connection had not committed
\* is gone.
FinishRun ==
    /\ phase = "pending" /\ pos > Len(queue)
    /\ LET converts == "Lead" \in Range(queue) /\ "Lead" \notin skip_objects /\ ~dry_run
       IN
       \E calls \in {IF converts THEN ConvertCalls(cache, source) ELSE {}} :
       \E failed \in SUBSET calls :
          /\ Cardinality(failed) <= MaxFailures - failures
          /\ failures' = failures + Cardinality(failed)
          /\ target' = LeadsConverted(target, calls \ failed)
          /\ conversions' =
                IF converts
                THEN Append(conversions,
                            [run |-> run, queue |-> queue, skip_objects |-> skip_objects,
                             dry_run |-> dry_run, returned |-> passDone,
                             calls |-> calls, failed |-> failed])
                ELSE conversions
    /\ phase' = "idle"
    /\ table' = committed
    /\ cleared' = {}
    /\ everRan' = everRan \cup (IF dry_run THEN {} ELSE Range(queue) \ skip_objects)
    /\ UNCHANGED <<cache, committed, lastWrite, lastOp, runVars, nextId, created,
                   batchVars, loopVars, pos, stats, submitted, mapLog, asked, passDone,
                   judged>>

UploadNext ==
    \/ StartRun \/ ClearType \/ ClearMappings \/ SkipObject
    \/ Prepare \/ Submit \/ ReconcileStep \/ ReconcileDone \/ FinishRun

SpecUpload == UploadInit /\ [][UploadNext]_vars

\* every call made by a started upload_all returns, so that the run goes on
\* until it ends: the steps of a run are taken when they can be (a new run
\* and the clearing of mappings are the user's choice)
RunStep == SkipObject \/ Prepare \/ Submit \/ ReconcileStep \/ ReconcileDone \/ FinishRun

\* the runs over one dataset
LifecycleInit == UploadInit /\ source = ConvertData

SpecUploadFair == LifecycleInit /\ [][UploadNext]_vars /\ WF_vars(RunStep)

(***************************************************************************)
(* The result loop on its own: upload_object with the outcomes of a        *)
(* submission in hand, every record of the batch having failed.            *)
(***************************************************************************)
MaxOutcomes == 6

ClassifyObjects == {"Quote", "Contact", "Lead", "Account"}

ClassifyPayloads(object_name) ==
    CASE object_name = "Quote" ->
            {Payload("UNKNOWN_EXCEPTION", "other"), Payload("REQUIRED_FIELD_MISSING", "Name")}
      [] object_name = "Contact" ->
            {Payload("DUPLICATE_VALUE", "duplicate"), Payload("UNKNOWN_EXCEPTION", "other")}
      [] object_name = "Lead" ->
            {Payload("DUPLICATES_DETECTED", "duplicate"),
             Payload("FIELD_INTEGRITY_EXCEPTION", "other")}
      [] OTHER -> {Payload("INVALID_FIELD", "Fax"), EmptyErrors}

Sid(i) == "s" \o ToString(i)

\* the first record of a Contact batch carries the Email of a Contact of the org
ClassifyRecord(object_name, i) ==
    IF object_name = "Contact" /\ i = 1
    THEN [OriginalId__c |-> Sid(i), Email |-> "e1"]
    ELSE [OriginalId__c |-> Sid(i)]

ClassifyInit ==
    /\ \E object_name \in ClassifyObjects :
          /\ queue = <<object_name>>
          /\ source = With(NoRows, object_name, [i \in 1..MaxOutcomes |-> [Id |-> Sid(i)]])
          /\ records = [i \in 1..MaxOutcomes |-> ClassifyRecord(object_name, i)]
          /\ results \in [1..MaxOutcomes -> {Failed(p) : p \in ClassifyPayloads(object_name)}]
    /\ old_ids = [i \in 1..MaxOutcomes |-> Sid(i)]
    /\ rec_src = old_ids
    /\ target = InitialOrg \cup {OrgRecord("Contact", "T0", [Email |-> "e1"])}
    /\ nextId = 0
    /\ cache = EmptyCache(ObjectNames, SourceIds) /\ table = {} /\ committed = {}
    /\ lastWrite = EmptyCache(StoreObjects, StoreOldIds)
    /\ failures = 0
    /\ lastOp = [op |-> "init", object_name |-> NULL, repeats |-> FALSE, raised |-> FALSE]
    /\ run = 1 /\ dry_run = FALSE /\ skip_objects = {} /\ pos = 1
    /\ phase = "submitted"
    /\ ridx = 1 /\ uploaded = 0 /\ errors = 0 /\ quote_errors_shown = 0
    /\ stats = EmptyRecord /\ created = {} /\ submitted = {} /\ mapLog = {} /\ asked = {}
    /\ passDone = {} /\ runStart = EmptyCache(ObjectNames, SourceIds)
    /\ judged = {} /\ cleared = {} /\ everRan = {}
    /\ conversions = <<>>

ClassifyNext == ReconcileStep \/ ReconcileDone

SpecClassify == ClassifyInit /\ [][ClassifyNext]_vars

(***************************************************************************)
(* The cleanup script: SalesforceCleaner.  queue is CLEANUP_ORDER, pos the *)
(* place of cleanup_all in it, dry_run the absence of --confirm, stats the *)
(* result of delete_object_records per object.  The runs of the model have *)
(* no --limit.                                                             *)
(***************************************************************************)
\* Objects to clean up (in reverse dependency order)
CLEANUP_ORDER == <<
    "CaseHistory__c", "EmailMessage", "Knowledge__kav", "OrderItem", "Order", "Case",
    "PricebookEntry", "Contact", "Product2", "Pricebook2", "Issue__c", "Account" >>

\* "Depends on:" in the comments of UPLOAD_ORDER; optional: the dependencies
\* the comments mark (optional)
DependsOn(object_name) ==
    CASE object_name = "UserTerritory2Association" ->
            [required |-> {"User", "Territory2"}, optional |-> {}]
      [] object_name = "PricebookEntry" ->
            [required |-> {"Pricebook2", "Product2"}, optional |-> {}]
      [] object_name = "Contact" -> [required |-> {"Account", "User"}, optional |-> {}]
      [] object_name = "Opportunity" ->
            [required |-> {"Account"}, optional |-> {"Contact", "Pricebook2"}]
      [] object_name = "OpportunityLineItem" ->
            [required |-> {"Opportunity", "Product2", "PricebookEntry"}, optional |-> {}]
      [] object_name = "Contract" -> [required |-> {"Account"}, optional |-> {}]
      [] object_name = "Quote" ->
            [required |-> {"Opportunity", "Account"}, optional |-> {"Contact"}]
      [] object_name = "QuoteLineItem" ->
            [required |-> {"Quote", "Product2", "PricebookEntry"}, optional |-> {}]
      [] object_name = "Order" ->
            [required |-> {"Account", "Pricebook2"}, optional |-> {"Contract"}]
      [] object_name = "OrderItem" ->
            [required |-> {"Order", "Product2", "PricebookEntry"}, optional |-> {}]
      [] object_name = "Case" ->
            [required |-> {"Account", "Contact", "User", "Issue__c"},
             optional |-> {"OrderItem"}]
      [] object_name = "Task" ->
            [required |-> {},
             optional |-> {"Account", "Contact", "Lead", "Opportunity", "Case"}]
      [] object_name = "Event" ->
            [required |-> {}, optional |-> {"Account", "Contact", "Lead", "Opportunity"}]
      [] object_name = "ProductCategoryProduct" ->
            [required |-> {"ProductCategory", "Product2"}, optional |-> {}]
      [] object_name = "EmailMessage" -> [required |-> {"Case"}, optional |-> {}]
      [] object_name = "LiveChatTranscript" ->
            [required |-> {"Account", "Case", "Contact", "User", "Lead"}, optional |-> {}]
      [] object_name = "VoiceCallTranscript__c" ->
            [required |-> {}, optional |-> {"Case", "Contact", "User"}]
      [] object_name = "CaseHistory__c" -> [required |-> {"Case", "User"}, optional |-> {}]
      [] OTHER -> [required |-> {}, optional |-> {}]

\* the records an org to clean up can hold: one of each object of
\* CLEANUP_ORDER but Knowledge__kav, with the references the upload gives them
CleanupRecords ==
    { OrgRecord("Account", "A1", [Name |-> "Acme"]),
      OrgRecord("Contact", "C1", [LastName |-> "Ann", AccountId |-> "A1"]),
      OrgRecord("Order", "O1", [AccountId |-> "A1", Status |-> "Draft"]),
      OrgRecord("OrderItem", "I1", [OrderId |-> "O1", Quantity |-> "1"]),
      OrgRecord("Case", "K1", [Subject |-> "Help", AccountId |-> "A1",
                               ContactId |-> "C1", OrderItemId__c |-> "I1"]),
      OrgRecord("EmailMessage", "M1", [Subject |-> "Re", ParentId |-> "K1"]),
      OrgRecord("CaseHistory__c", "H1", [CaseId__c |-> "K1"]),
      OrgRecord("Knowledge__kav", "N1", [UrlName |-> "FAQ"]) }

\* the ids the fields of a record refer to
RefsOf(r) ==
    {r.fields[col] : col \in {c \in DOMAIN r.fields : EndsWithId(c)}}

\* no record of the org refers to a record that the org does not hold
Closed(tgt) ==
    \A r \in tgt : RefsOf(r) \subseteq {x.Id : x \in tgt}

CleanupInit ==
    /\ target \in {tgt \in SUBSET CleanupRecords : Closed(tgt)}
    /\ dry_run \in BOOLEAN
    /\ queue = CLEANUP_ORDER /\ pos = 1 /\ phase = "pending"
    /\ stats = EmptyRecord
    /\ source = NoRows /\ nextId = 0 /\ run = 1 /\ skip_objects = {}
    /\ cache = EmptyCache(ObjectNames, SourceIds) /\ table = {} /\ committed = {}
    /\ lastWrite = EmptyCache(StoreObjects, StoreOldIds)
    /\ failures = 0
    /\ lastOp = [op |-> "init", object_name |-> NULL, repeats |-> FALSE, raised |-> FALSE]
    /\ records = <<>> /\ old_ids = <<>> /\ rec_src = <<>> /\ results = <<>>
    /\ ridx = 1 /\ uploaded = 0 /\ errors = 0 /\ quote_errors_shown = 0
    /\ created = {} /\ submitted = {} /\ mapLog = {} /\ asked = {}
    /\ passDone = {} /\ runStart = EmptyCache(ObjectNames, SourceIds)
    /\ judged = {} /\ cleared = {} /\ everRan = {}
    /\ conversions = <<>>

\* cleanup_all: one pass of its loop, delete_object_records(object_name).
\* raising: the records whose delete call raises
DeleteObjectRecords ==
    /\ phase = "pending" /\ pos <= Len(queue)
    /\ LET object_name == queue[pos]
           found       == {r \in target : r.object = object_name}
       IN
       \E raising \in SUBSET found :
          /\ Cardinality(raising) <= MaxFailures - failures
          /\ (object_name = "Knowledge__kav" \/ dry_run) => raising = {}
          /\ failures' = failures + Cardinality(raising)
          /\ IF object_name = "Knowledge__kav"
             THEN /\ stats' = Put(stats, object_name,
                                  [deleted |-> 0, errors |-> 0, skipped |-> TRUE])
                  /\ target' = target
             ELSE IF found = {} \/ dry_run
             THEN /\ stats' = Put(stats, object_name,
                                  [deleted |-> 0, errors |-> 0, skipped |-> FALSE])
                  /\ target' = target
             ELSE /\ stats' = Put(stats, object_name,
                                  [deleted |-> Cardinality(found \ raising),
                                   errors |-> Cardinality(raising), skipped |-> FALSE])
                  /\ target' = target \ (found \ raising)
    /\ pos' = pos + 1
    /\ passDone' = passDone \cup {queue[pos]}
    /\ UNCHANGED <<dbVars, lastWrite, lastOp, runVars, nextId, created, batchVars,
                   loopVars, phase, submitted, mapLog, asked, judged, cleared, everRan,
                   conversions>>

\* cleanup_all after its loop: the summary
CleanupSummary ==
    /\ phase = "pending" /\ pos > Len(queue)
    /\ phase' = "idle"
    /\ UNCHANGED <<storeVars, runVars, orgVars, batchVars, loopVars, pos, stats,
                   submitted, mapLog, asked, passDone, judged, cleared, everRan,
                   conversions>>

CleanupNext == DeleteObjectRecords \/ CleanupSummary

SpecCleanup == CleanupInit /\ [][CleanupNext]_vars

(***************************************************************************)
(* Claims about the mapping store                                          *)
(***************************************************************************)

\* C1: for every key with non-empty ids, after any sequence of save_mapping
\* and save_mappings_batch calls (a batch may repeat an old_id), get_mapping
\* returns the new_id of the most recent completed write of that key, and
\* the table never holds two target ids for one (object_name, old_id).
C1_LastWriteWins ==
    /\ \A o \in DOMAIN cache : \A k \in DOMAIN cache[o] :
           ~Falsy(k) => get_mapping(cache, o, k) = lastWrite[o][k]
    /\ \A r1, r2 \in table :
           (r1.object_name = r2.object_name /\ r1.old_id = r2.old_id)
               => r1.new_id = r2.new_id

\* a batch that repeated an old_id has been saved and the key is mapped
C1_RepeatedKeySaved ==
    /\ lastOp.op = "save_mappings_batch"
    /\ lastOp.repeats
    /\ ~lastOp.raised
    /\ get_mapping(cache, lastOp.object_name, "a1") = "T2"

\* C2: the cache holds exactly the pairs of the id_mappings table, so
\* get_mapping (cache) and get_count (table) never disagree, whichever
\* durable writes have failed.
C2_CacheMatchesTable ==
    /\ \A o \in DOMAIN cache : \A k \in DOMAIN cache[o] :
           cache[o][k] # NULL => Row(o, k, cache[o][k]) \in table
    /\ \A r \in table : get_mapping(cache, r.object_name, r.old_id) = r.new_id
    /\ \A o \in DOMAIN cache :
           get_count(table, o) = Cardinality(get_all_for_object(cache, o))

(***************************************************************************)
(* Claims about the upload pipeline                                        *)
(***************************************************************************)

\* rows of one object in a set of id_mappings rows
RowsOf(tbl, o) == {r \in tbl : r.object_name = o}

\* the source row with a given Id
SourceRow(o, id) == CHOOSE r \in Range(source[o]) : r.Id = id

\* C3: when the same dataset is uploaded again into the same org with the
\* mapping store retained, no target record is created for a source id that
\* was already mapped, and every mapping written for such an id is the one
\* the store held when the run started.
C3_RerunCreatesNothing ==
    /\ \A e \in created : ~(e.run > 1 /\ e.retained /\ e.mapped)
    /\ (run > 1 /\ phase # "idle" /\ cleared = {}) =>
          \A m \in mapLog :
             (m.run = run /\ ~Falsy(get_mapping(runStart, m.object, m.old_id)))
                 => m.new_id = get_mapping(runStart, m.object, m.old_id)

\* C4: in a run over the default upload order, whenever a record's
\* reference field is looked up in the mapping store, the pass of the
\* referenced object type (its mapping writes included) has already
\* completed in that run.
C4_ReferencedPassCompleted ==
    queue = UPLOAD_ORDER => \A a \in asked : a.done

\* a Task's polymorphic WhatId has been looked up among Opportunity mappings
\* in a default-order run, after the Opportunity pass
C4_ReferenceLookedUp ==
    /\ queue = UPLOAD_ORDER
    /\ \E a \in asked : a.by = "Task" /\ a.of = "Opportunity" /\ a.done
    /\ "Opportunity" \in passDone

\* C5: every mapping the end-of-pass reconciliation writes pairs a source id
\* with the target id of the record that was built from that same source
\* row, also for types whose record list is filtered after the transform
\* loop (User).
C5_MappingPairsOwnRow ==
    \A m \in mapLog : m.by = "batch" => m.old_id = m.src

\* the statusCode/message table of upload_object's result loop
BenignTable(object_name, p) ==
    Branch(object_name, p) \in {"warn", "quote warn", "contact duplicate"}

\* C6: a failed per-record outcome raises the pass's error count exactly
\* when its (object type, statusCode, message) matches no entry of the table
\* of benign failures; a matching failure never raises it.
C6_CountedIffNotBenign ==
    \A j \in judged : j.counted = ~BenignTable(j.object, j.payload)

\* C7: after a first full run in which every submitted record succeeded,
\* each uploaded row has a mapping entry under its own source id, each type
\* has as many entries as uploaded rows, and every reference a submitted
\* child record carries to an uploaded parent type is the store's value for
\* the referenced source id.
C7_EntryPerUploadedRow ==
    (/\ phase = "idle" /\ run = 1 /\ ~dry_run
     /\ queue = UPLOAD_ORDER /\ skip_objects = {}
     /\ failures = 0 /\ judged = {} /\ cleared = {})
    => /\ \A s \in submitted : ~Falsy(get_mapping(cache, s.object, s.src))
       /\ \A o \in Range(UPLOAD_ORDER) :
             get_count(table, o) = Cardinality({s \in submitted : s.object = o})
       /\ \A s \in submitted : \A col \in IdColumns \cap DOMAIN s.record :
             LET row == SourceRow(s.object, s.src)
             IN  (/\ col \in DOMAIN row
                  /\ LooksUp(s.object, col, row[col])
                  /\ RefObject(s.object, col, row[col]) \in TypesOf(source))
                 => s.record[col] =
                       get_mapping(cache, RefObject(s.object, col, row[col]), row[col])

\* both references of a PricebookEntry source row resolve in the store
EntryResolves(id) ==
    LET row == SourceRow("PricebookEntry", id)
    IN  /\ ~Falsy(map_id(cache, Get(row, "Product2Id"), "Product2"))
        /\ ~Falsy(map_id(cache, Get(row, "Pricebook2Id"), "Pricebook2"))

\* C8: a PricebookEntry row whose Product2Id or Pricebook2Id has no mapping
\* is left out of the submission and gets no mapping entry: every record of
\* the PricebookEntry batch, every submitted record and every mapping
\* written comes from a row with both references resolved.
C8_UnresolvedEntryLeftOut ==
    /\ (phase \in {"prepared", "submitted"} /\ queue[pos] = "PricebookEntry") =>
          /\ \A i \in 1..Len(rec_src) : EntryResolves(rec_src[i])
          /\ \A i \in 1..Len(old_ids) : EntryResolves(old_ids[i])
    /\ \A s \in submitted : s.object = "PricebookEntry" =>
          {"Product2Id", "Pricebook2Id"} \subseteq DOMAIN s.record
    /\ \A m \in mapLog : m.object = "PricebookEntry" =>
          \E s \in submitted :
             s.object = "PricebookEntry" /\ s.src = m.old_id /\ s.run = m.run

\* the PricebookEntry batch holds the resolvable row only, while the row
\* with the unmapped product is in the source
C8_EntryBatchSubmitted ==
    /\ phase = "submitted" /\ queue[pos] = "PricebookEntry"
    /\ rec_src = <<"01ue1">>
    /\ \E r \in Range(source["PricebookEntry"]) : r.Id = "01ue2"
    /\ Falsy(get_mapping(cache, "Product2", "01tpX"))

\* a completed clear_object(T) removes T's entries and leaves the entries of
\* every other type as the database file holds them
ClearFrame ==
    (lastOp' # lastOp /\ lastOp'.op = "clear_object" /\ ~lastOp'.raised) =>
       \A o \in ObjectNames :
          IF o = lastOp'.object_name
          THEN /\ get_all_for_object(cache', o) = {}
               /\ RowsOf(table', o) = {} /\ RowsOf(committed', o) = {}
          ELSE /\ cache'[o] = LoadCache(committed, ObjectNames, SourceIds)[o]
               /\ RowsOf(table', o) = RowsOf(committed, o)
               /\ RowsOf(committed', o) = RowsOf(committed, o)

\* a step leaves the entries of object type o untouched
Untouched(o) ==
    /\ cache'[o] = cache[o]
    /\ RowsOf(table', o) = RowsOf(table, o)
    /\ RowsOf(committed', o) = RowsOf(committed, o)

\* a step only adds entries of object type o for source ids that have none
OnlyAdds(o) ==
    /\ \A k \in DOMAIN cache[o] : cache[o][k] # NULL => cache'[o][k] = cache[o][k]
    /\ RowsOf(table, o) \subseteq RowsOf(table', o)
    /\ RowsOf(committed, o) \subseteq RowsOf(committed', o)

C10_RerunCreatesRecords ==
    \A m \in mapLog :
       (m.by = "batch" /\ m.rerun = m.object) =>
          \E e \in created : e.object = m.object /\ e.id = m.new_id /\ e.run = m.run

\* C10: a re-run in upsert mode of a type whose mapping entries were cleared
\* matches the target records an earlier upsert created by OriginalId__c:
\* for such a source record it creates nothing and writes the earlier
\* record's id as the mapping again; only a mapping of a source record with
\* no such target record, or one written in insert mode, names a record
\* created by the re-run.
C10_RerunRestoresMappings ==
    \A m \in mapLog :
       (m.by = "batch" /\ m.rerun = m.object /\ m.old_id = m.src) =>
          LET prior == {e \in created : /\ e.object = m.object /\ e.src = m.src
                                        /\ e.run < m.run /\ e.mode = "upsert"}
              fresh == {e \in created : /\ e.object = m.object /\ e.src = m.src
                                        /\ e.run = m.run}
          IN  IF m.mode = "upsert" /\ prior # {}
              THEN m.new_id \in {e.id : e \in prior} /\ fresh = {}
              ELSE m.new_id \in {e.id : e \in fresh}

\* a re-run after a clear has written, in upsert mode, the id of a record
\* created by the first run
C10_MappingRestored ==
    \E m \in mapLog :
       /\ m.by = "batch" /\ m.rerun = m.object /\ m.mode = "upsert"
       /\ \E e \in created : /\ e.object = m.object /\ e.src = m.src
                             /\ e.run < m.run /\ e.id = m.new_id
       /\ get_mapping(cache, m.object, m.old_id) = m.new_id

\* outcomes of the batch the result loop has gone through so far
Judged(ok) == {i \in 1..(ridx - 1) : i <= Len(results) /\ results[i].success = ok}

\* C11: failures never abort a run.  Whatever failed while an object type
\* was uploaded (a record, the pre-pass, the submission, the mapping write),
\* upload_all goes through every later object of its list and a finished run
\* holds a summary for every object that was not skipped; in the result loop
\* a failed record raises the error count by at most one and every
\* successful record is counted as uploaded.
C11_FailuresNeverAbort ==
    /\ phase = "idle" =>
          \A i \in 1..Len(queue) :
             queue[i] \notin skip_objects => queue[i] \in DOMAIN stats
    /\ phase # "idle" =>
          \A i \in 1..Len(queue) :
             (i < pos /\ queue[i] \notin skip_objects) => queue[i] \in DOMAIN stats
    /\ phase = "submitted" =>
          /\ errors <= Cardinality(Judged(FALSE))
          /\ uploaded = Cardinality(Judged(TRUE))

\* a finished run in which an object type ended with errors and a later
\* object type of the list was uploaded all the same
C11_LaterTypeUploaded ==
    /\ phase = "idle" /\ run > 0 /\ failures > 0
    /\ \E i, j \in 1..Len(queue) :
          /\ i < j
          /\ queue[i] \in DOMAIN stats /\ stats[queue[i]].errors > 0
          /\ queue[j] \in DOMAIN stats /\ stats[queue[j]].uploaded > 0

\* C12: a dry run uploads nothing: no step of upload_all with dry_run set
\* creates or changes a record of the target system or writes an entry of
\* the mapping store (cache, table or database file).
C12_DryRunChangesNothing ==
    [][(dry_run /\ phase # "idle") =>
          /\ target' = target
          /\ cache' = cache /\ table' = table /\ committed' = committed]_vars

\* the place of an object type in UPLOAD_ORDER
PlaceOf(object_name) == CHOOSE i \in 1..Len(UPLOAD_ORDER) : UPLOAD_ORDER[i] = object_name

\* the pass of the i-th object of the list has started
Started(i) ==
    /\ queue[i] \notin skip_objects
    /\ \/ i < pos
       \/ i = pos /\ phase \in {"prepared", "submitted"}

\* C13: whatever skip_objects and only_object lists upload_all is given,
\* object types are processed in the order of UPLOAD_ORDER: of two processed
\* types, the one that comes first in UPLOAD_ORDER has its pass first.
C13_DependencyOrder ==
    phase # "idle" =>
       \A i, j \in 1..Len(queue) :
          (i < j /\ Started(i) /\ Started(j))
              => PlaceOf(queue[i]) < PlaceOf(queue[j])

\* the references the upload treats as required
RequiredRefs ==
    {<<"Order", "AccountId">>, <<"OrderItem", "OrderId">>,
     <<"OrderItem", "PricebookEntryId">>,
     <<"PricebookEntry", "Pricebook2Id">>, <<"PricebookEntry", "Product2Id">>,
     <<"ProductCategoryProduct", "ProductCategoryId">>,
     <<"ProductCategoryProduct", "ProductId">>}

\* the row has a value in a required reference column that the store does
\* not map
UnresolvedRequired(object_name, row) ==
    \E rc \in RequiredRefs :
       /\ rc[1] = object_name /\ rc[2] \in DOMAIN row /\ ~Falsy(row[rc[2]])
       /\ Falsy(map_id(cache, row[rc[2]], RefObject(object_name, rc[2], row[rc[2]])))

\* C14: a source row with a non-empty required reference that has no
\* mapping is rejected as a whole: it is in no batch and in no submission;
\* a row whose unresolved references are all optional stays in the batch
\* without those fields.
C14_UnresolvedRequiredRejected ==
    /\ (phase \in {"prepared", "submitted"}) =>
          \A i \in 1..Len(rec_src) :
             ~UnresolvedRequired(queue[pos], SourceRow(queue[pos], rec_src[i]))
    /\ \A s \in submitted : \A rc \in RequiredRefs :
          (rc[1] = s.object /\ ~Falsy(Get(SourceRow(s.object, s.src), rc[2])))
              => rc[2] \in DOMAIN s.record
    /\ (phase \in {"prepared", "submitted"} /\ queue[pos] \notin {"User", "Knowledge__kav"}) =>
          \A i \in 1..Len(source[queue[pos]]) :
             ~UnresolvedRequired(queue[pos], source[queue[pos]][i])
                 => source[queue[pos]][i].Id \in Range(rec_src)

\* the records of an object type submitted in the current run
SubmittedNow(object_name) ==
    {s \in submitted : s.object = object_name /\ s.run = run}

\* C15: every source row dropped before submission is counted in the
\* "skipped" count of the summary of its type: in a run without faults,
\* for each type with a summary, rows read = records submitted + skipped.
C15_DroppedRowsCounted ==
    (~dry_run /\ failures = 0) =>
       \A o \in DOMAIN stats :
          Len(source[o]) = Cardinality(SubmittedNow(o)) + stats[o].skipped

\* C16: a failed outcome the result loop treats as benign is counted as
\* skipped in the summary of its type, so that uploaded + errors + skipped
\* is the number of outcomes.  In the result loop on its own every source
\* row of the type was submitted and has an outcome.
C16_BenignCountedSkipped ==
    \A o \in DOMAIN stats :
       stats[o].uploaded + stats[o].errors + stats[o].skipped = Len(source[o])

\* C17: a Contact outcome that failed with DUPLICATE_VALUE or
\* DUPLICATES_DETECTED is never counted as an error, and once the result
\* loop has passed it the store maps the record's source id to a Contact of
\* the target system with the record's Email.
C17_DuplicateContactRecovered ==
    /\ \A j \in judged :
          (j.object = "Contact"
             /\ j.payload.statusCode \in {"DUPLICATE_VALUE", "DUPLICATES_DETECTED"})
              => ~j.counted
    /\ (phase = "submitted" /\ queue[pos] = "Contact") =>
          \A i \in 1..(ridx - 1) :
             (/\ ~results[i].success
              /\ results[i].error.statusCode \in {"DUPLICATE_VALUE", "DUPLICATES_DETECTED"})
                 => \E r \in ContactsByEmail(target, records, i) :
                       get_mapping(cache, "Contact", rec_src[i]) = r.Id

\* C18: no submitted record carries the source primary key under the name
\* Id; a record submitted in upsert mode carries OriginalId__c equal to the
\* Id of its source row; a record submitted in insert mode (User,
\* Knowledge__kav, or after the upsert was given up) carries no
\* OriginalId__c.
C18_SourceIdOnlyAsExternalId ==
    /\ \A s \in submitted :
          /\ "Id" \notin DOMAIN s.record
          /\ s.mode = "upsert" =>
                /\ "OriginalId__c" \in DOMAIN s.record
                /\ s.record["OriginalId__c"] = s.src
          /\ s.mode = "insert" => "OriginalId__c" \notin DOMAIN s.record
          /\ s.object \in {"User", "Knowledge__kav"} => s.mode = "insert"
    /\ phase \in {"prepared", "submitted"} =>
          \A i \in 1..Len(records) : "Id" \notin DOMAIN records[i]

\* records have been submitted in upsert mode and, for a type that has the
\* external id mechanism, in insert mode
C18_BothModesSubmitted ==
    /\ \E s \in submitted : s.mode = "upsert" /\ s.record["OriginalId__c"] = s.src
    /\ \E s \in submitted : s.mode = "insert" /\ s.object \notin {"User", "Knowledge__kav"}

\* the attributes a record of an object type must not carry
ReadOnlyFields(object_name) ==
    {"CreatedDate", "LastModifiedDate", "SystemModstamp"}
      \cup (IF object_name = "Lead"
            THEN {"ConvertedContactId", "ConvertedAccountId", "ConvertedOpportunityId",
                  "ConvertedDate", "IsConverted"} ELSE {})
      \cup (IF object_name \in {"OpportunityLineItem", "QuoteLineItem"}
            THEN {"TotalPrice"} ELSE {})
      \cup (IF object_name = "Case" THEN {"ClosedDate"} ELSE {})

\* C19: server-computed and read-only attributes are always stripped: no
\* record of a batch and no submitted record carries CreatedDate,
\* LastModifiedDate or SystemModstamp, no Lead record a conversion field or
\* IsConverted, no OpportunityLineItem or QuoteLineItem record TotalPrice,
\* no Case record ClosedDate.
C19_ReadOnlyFieldsStripped ==
    /\ \A s \in submitted : DOMAIN s.record \cap ReadOnlyFields(s.object) = {}
    /\ phase \in {"prepared", "submitted"} =>
          \A i \in 1..Len(records) :
             DOMAIN records[i] \cap ReadOnlyFields(queue[pos]) = {}

\* records built from rows that carry such attributes have been submitted
C19_AuditedRowsSubmitted ==
    \A o \in {"Lead", "OpportunityLineItem", "QuoteLineItem", "Case"} :
       \E s \in submitted :
          /\ s.object = o
          /\ DOMAIN SourceRow(o, s.src) \cap ReadOnlyFields(o) # {}

\* the types a polymorphic reference is resolved to
PolymorphicTypes == {"Opportunity", "Account", "Case", "Lead", "Contact", "Contract"}

\* C20: for WhatId and WhoId with a non-empty value the referenced type is
\* one of Opportunity, Account, Case, Lead, Contact, Contract, chosen from the
\* first three characters of the value, and the field of the prepared
\* record is what the store maps (that type, the value) to, as map_id
\* answers for a reference to that type; without a mapping the field is
\* left out.
C20_PolymorphicResolved ==
    (phase = "prepared" /\ queue[pos] \in {"Task", "Event"}) =>
       \A i \in 1..Len(records) : \A col \in {"WhatId", "WhoId"} :
          \A value \in {Get(SourceRow(queue[pos], rec_src[i]), col)} :
             ~Falsy(value) =>
                /\ PolymorphicObject(value) \in PolymorphicTypes
                /\ col \in DOMAIN records[i]
                      => records[i][col] = map_id(cache, value, PolymorphicObject(value))
                /\ col \notin DOMAIN records[i]
                      => Falsy(map_id(cache, value, PolymorphicObject(value)))

\* the same for the values that start with one of the six prefixes
C20_ListedPrefixResolved ==
    (phase = "prepared" /\ queue[pos] \in {"Task", "Event"}) =>
       \A i \in 1..Len(records) : \A col \in {"WhatId", "WhoId"} :
          \A value \in {Get(SourceRow(queue[pos], rec_src[i]), col)} :
             (~Falsy(value) /\ PolymorphicObject(value) \in PolymorphicTypes) =>
                /\ col \in DOMAIN records[i]
                      => records[i][col] = map_id(cache, value, PolymorphicObject(value))
                /\ col \notin DOMAIN records[i]
                      => Falsy(map_id(cache, value, PolymorphicObject(value)))

\* a Task is prepared whose WhatId is the target id of the Opportunity
C20_TaskResolved ==
    /\ phase = "prepared" /\ queue[pos] = "Task"
    /\ \E i \in 1..Len(records) :
          /\ rec_src[i] = "00Tt1"
          /\ "WhatId" \in DOMAIN records[i]
          /\ records[i].WhatId = get_mapping(cache, "Opportunity", "006o1")
          /\ records[i].WhatId # "006o1"

\* C21: WhatId or WhoId with a value whose first three characters are none
\* of the six known prefixes is skipped: the field is absent from every
\* record submitted for the row.
C21_UnknownPrefixSkipped ==
    \A s \in submitted : \A col \in {"WhatId", "WhoId"} :
       \A value \in {Get(SourceRow(s.object, s.src), col)} :
          (s.object \in {"Task", "Event"} /\ ~Falsy(value)
             /\ PolymorphicObject(value) = NULL)
              => col \notin DOMAIN s.record

\* C22: for a non-empty OwnerId whose User the store does not map, a
\* prepared Task or Event record carries OwnerId, equal to the id of the
\* current user, and a prepared record of any other type does not carry
\* OwnerId; every Task or Event record submitted for a row with an OwnerId
\* carries the field.
C22_OwnerSentinelOrAbsent ==
    /\ phase = "prepared" =>
          \A i \in 1..Len(records) :
             \A value \in {Get(SourceRow(queue[pos], rec_src[i]), "OwnerId")} :
                (~Falsy(value) /\ Falsy(map_id(cache, value, "User"))) =>
                   IF queue[pos] \in {"Task", "Event"}
                   THEN Get(records[i], "OwnerId") = OrgUserId
                   ELSE "OwnerId" \notin DOMAIN records[i]
    /\ \A s \in submitted :
          (s.object \in {"Task", "Event"}
             /\ ~Falsy(Get(SourceRow(s.object, s.src), "OwnerId")))
              => "OwnerId" \in DOMAIN s.record

\* the same in the runs in which no call has raised
C22_SentinelWhenQueryAnswers ==
    failures = 0 => C22_OwnerSentinelOrAbsent

\* C23: the Lead conversion post-pass runs at most once per upload_all call,
\* never while the loop over the types is still running, and only when
\* upload_object has returned for every type of the list that is not
\* skipped; it runs only when Lead is in the list, is not skipped and the
\* run is not a dry run; and each convert call it issues is for a Lead for
\* which the store held target ids for the Lead, its ConvertedAccountId and
\* its ConvertedContactId.
C23_ConversionAfterAllTypes ==
    /\ \A i, j \in DOMAIN conversions :
          conversions[i].run = conversions[j].run => i = j
    /\ phase # "idle" => \A i \in DOMAIN conversions : conversions[i].run # run
    /\ \A i \in DOMAIN conversions :
          /\ Range(conversions[i].queue) \ conversions[i].skip_objects
                \subseteq conversions[i].returned
          /\ "Lead" \in Range(conversions[i].queue)
          /\ "Lead" \notin conversions[i].skip_objects
          /\ ~conversions[i].dry_run
          /\ \A call \in conversions[i].calls :
                /\ ~Falsy(call.new_lead_id)
                /\ ~Falsy(call.new_account_id)
                /\ ~Falsy(call.new_contact_id)

\* a post-pass has converted the Lead whose Account and Contact are mapped
\* and has left alone the uploaded Lead whose Contact is not
C23_LeadConverted ==
    /\ phase = "idle"
    /\ \E i \in DOMAIN conversions :
          /\ {call.lead : call \in conversions[i].calls} = {"00Ql1"}
          /\ conversions[i].failed = {}
    /\ ~Falsy(get_mapping(cache, "Lead", "00Ql2"))
    /\ \E r \in target : r.object = "Lead" /\ Get(r.fields, "IsConverted") = "True"

\* the mappings of the successful outcomes of the type at hand are in the
\* database file and answered by get_mapping in the next state
OutcomesStored ==
    \A j \in 1..Len(MappingsToSave(results, old_ids)) :
       \E m \in {MappingsToSave(results, old_ids)[j]} :
          /\ \E r \in committed' : r.object_name = queue[pos] /\ r.old_id = m[1]
          /\ ~Falsy(get_mapping(cache', queue[pos], m[1]))
          /\ (~Repeats(MappingsToSave(results, old_ids))) =>
                /\ Row(queue[pos], m[1], m[2]) \in committed'
                /\ get_mapping(cache', queue[pos], m[1]) = m[2]

\* C24: when upload_object returns from its reconciliation and upload_all
\* moves to the next object type, every mapping produced by a successful
\* outcome of the type is in the database file and is what get_mapping
\* answers.
C24_MappingsDurableBeforeNextType ==
    [][(phase = "submitted" /\ phase' = "pending") => OutcomesStored]_vars

\* the same for the returns in which save_mappings_batch does not raise
C24_DurableWhenSaveReturns ==
    [][(phase = "submitted" /\ phase' = "pending" /\ failures' = failures)
          => OutcomesStored]_vars

\* the types that end as SKIPPED: named in skip_objects or without source rows
EndsSkipped(object_name) ==
    object_name \in skip_objects \/ source[object_name] = <<>>

\* how far the i-th type of the list has come in the current run:
\* 0 PENDING, 1 PREPARED, 2 SUBMITTED, 3 RECONCILED, 4 DONE or SKIPPED
Rank(i, at, ph, ri, res) ==
    IF i < at THEN 4
    ELSE IF i > at THEN 0
    ELSE CASE ph = "prepared" -> 1
           [] ph = "submitted" -> (IF ri > Len(res) THEN 3 ELSE 2)
           [] OTHER -> 0

\* C25: within one upload_all call every type of the list moves through
\* PENDING, PREPARED, SUBMITTED, RECONCILED in that order and never back, a
\* type that has reached DONE or SKIPPED stays there, a type that is skipped
\* or has no source rows goes from PENDING to SKIPPED in one step with no
\* submission and no mapping write in its name, and, when every call
\* returns, upload_all gets past the last type of its list.
C25_TypeLifecycle ==
    /\ [][(phase # "idle" /\ phase' # "idle" /\ run' = run) =>
            \A i \in 1..Len(queue) :
               /\ Rank(i, pos, phase, ridx, results)
                     <= Rank(i, pos', phase', ridx', results')
               /\ (Rank(i, pos, phase, ridx, results) # 4
                     /\ Rank(i, pos', phase', ridx', results') = 4
                     /\ EndsSkipped(queue[i]))
                    => /\ Rank(i, pos, phase, ridx, results) = 0
                       /\ submitted' = submitted /\ mapLog' = mapLog
                       /\ target' = target /\ committed' = committed
                       /\ cache' = cache]_vars
    /\ [](phase # "idle" =>
            \A i \in 1..Len(queue) :
               (i < pos /\ EndsSkipped(queue[i])) =>
                  /\ \A x \in submitted : ~(x.object = queue[i] /\ x.run = run)
                  /\ \A m \in mapLog : ~(m.object = queue[i] /\ m.run = run))
    /\ [](phase = "idle" /\ run > 0 => pos > Len(queue))
    /\ (phase # "idle") ~> (phase = "idle")

\* the same, and every type that has rows and is not skipped has been
\* SUBMITTED before it is DONE: while no call has raised, records of it were
\* sent in this run
C25_EveryStateVisited ==
    /\ C25_TypeLifecycle
    /\ []((phase # "idle" /\ failures = 0) =>
            \A i \in 1..Len(queue) :
               (i < pos /\ ~EndsSkipped(queue[i])) =>
                  \E x \in submitted : x.object = queue[i] /\ x.run = run)

\* a run has ended with one type uploaded through all of its states, one
\* type skipped by name and the types without rows skipped
C25_RunEnded ==
    /\ phase = "idle" /\ run > 0 /\ pos > Len(queue)
    /\ skip_objects # {}
    /\ \E o \in DOMAIN stats : stats[o].uploaded > 0 /\ ~dry_run
    /\ \E i \in 1..Len(queue) : source[queue[i]] = <<>>

\* C26: the UrlNames of the Knowledge__kav records prepared for submission
\* are pairwise distinct without regard to case, and none of them is a
\* UrlName an article of the target already has.
C26_UrlNamesUnique ==
    (phase = "prepared" /\ queue[pos] = "Knowledge__kav") =>
       /\ \A i, j \in 1..Len(records) :
             (i < j /\ ~Falsy(Get(records[i], "UrlName"))
                    /\ ~Falsy(Get(records[j], "UrlName")))
                 => Lower(records[i]["UrlName"]) # Lower(records[j]["UrlName"])
       /\ \A i \in 1..Len(records) :
             ~Falsy(Get(records[i], "UrlName"))
                 => Lower(records[i]["UrlName"]) \notin ExistingUrlNames(target)

\* the same in the first upload into a target without articles
C26_UniqueInEmptyTarget ==
    (phase = "prepared" /\ queue[pos] = "Knowledge__kav"
       /\ ExistingUrlNames(target) = {}) =>
       \A i, j \in 1..Len(records) :
          (i < j /\ ~Falsy(Get(records[i], "UrlName"))
                 /\ ~Falsy(Get(records[j], "UrlName")))
              => Lower(records[i]["UrlName"]) # Lower(records[j]["UrlName"])

\* C27: in every submitted record a reference column (one whose name ends
\* in Id or Id__c, other than the external id OriginalId__c) is absent or
\* holds an id of the target system, never an id of the source.
C27_NoSourceIdInReference ==
    \A s \in submitted : \A col \in DOMAIN s.record :
       EndsWithId(col) => s.record[col] \notin SourceIds

\* the same for the columns that _get_referenced_object gives a type
C27_ResolvedColumnsCarryTargetIds ==
    \A s \in submitted : \A col \in DOMAIN s.record :
       (EndsWithId(col)
          /\ RefObject(s.object, col, Get(SourceRow(s.object, s.src), col)) # NULL)
           => s.record[col] \notin SourceIds

\* the successful outcomes of the submission at hand
Successes == {i \in 1..Len(results) : results[i].success}

\* the mappings written in the name of a type in the current run, after the step
WrittenFor(object_name) ==
    {m \in mapLog' : m.object = object_name /\ m.run = run}

\* the summary upload_object returns after its reconciliation
CountsAgree ==
    /\ stats'[queue[pos]].uploaded = Cardinality(Successes)
    /\ Cardinality(WrittenFor(queue[pos])) <= stats'[queue[pos]].uploaded
    /\ (\A i \in 1..Len(old_ids) : ~Falsy(old_ids[i]))
          => Cardinality(WrittenFor(queue[pos])) = stats'[queue[pos]].uploaded
    /\ stats'[queue[pos]].uploaded + stats'[queue[pos]].errors <= Len(records)

\* C28: when upload_object returns after its reconciliation, the uploaded
\* count of its summary is the number of successful outcomes, the mappings
\* written for the type are at most that many, and exactly that many when
\* every source Id is non-empty, and uploaded + errors is at most the number
\* of records submitted.
C28_CountsMatchOutcomes ==
    [][(phase = "submitted" /\ phase' = "pending") => CountsAgree]_vars

\* the same for the runs in which no call has raised and no record failed
C28_CountsMatchWithoutFailures ==
    [][(phase = "submitted" /\ phase' = "pending" /\ failures' = 0)
          => CountsAgree]_vars

\* the LiveChatVisitor records the pre-pass has created for a source id
VisitorsOf(old_visitor_id) ==
    {e \in created : e.object = "LiveChatVisitor" /\ e.src = old_visitor_id}

\* C29: while the mappings are retained the pre-pass creates at most one
\* LiveChatVisitor of the target per source LiveChatVisitorId, over all the
\* runs: no visitor is created for an id that was mapped when the run
\* started, and every visitor created has its mapping written.
C29_OneVisitorPerSourceId ==
    /\ \A v \in SourceIds :
          (\A e \in VisitorsOf(v) : e.retained) => Cardinality(VisitorsOf(v)) <= 1
    /\ \A v \in SourceIds : \A e \in VisitorsOf(v) : ~e.mapped
    /\ \A v \in SourceIds : \A e \in VisitorsOf(v) :
          \E m \in mapLog : /\ m.by = "visitor" /\ m.old_id = v
                            /\ m.new_id = e.id /\ m.run = e.run

\* the same while no call has raised
C29_OneVisitorWithoutFailures ==
    failures = 0 => C29_OneVisitorPerSourceId

\* the place of an object in CLEANUP_ORDER
CleanupPlace(object_name) ==
    CHOOSE i \in 1..Len(CLEANUP_ORDER) : CLEANUP_ORDER[i] = object_name

\* C30: for all X and Y of CLEANUP_ORDER such that the dependencies of
\* UPLOAD_ORDER make X depend on Y, X is before Y in CLEANUP_ORDER, and so,
\* when every delete call succeeds, cleanup_all never leaves a record that
\* refers to a record it has deleted.
C30_ReverseDependencyOrder ==
    /\ \A X, Y \in Range(CLEANUP_ORDER) :
          Y \in DependsOn(X).required \cup DependsOn(X).optional
              => CleanupPlace(X) < CleanupPlace(Y)
    /\ failures = 0 => Closed(target)

\* the same for the dependencies that are not marked optional
C30_RequiredDependenciesReversed ==
    /\ \A X, Y \in Range(CLEANUP_ORDER) :
          Y \in DependsOn(X).required => CleanupPlace(X) < CleanupPlace(Y)
    /\ failures = 0 =>
          \A r \in target : \A col \in DOMAIN r.fields :
             (EndsWithId(col) /\ col # "OrderItemId__c")
                 => r.fields[col] \in {x.Id : x \in target}

====
